---- MODULE Spec2Model ----
(***************************************************************************)
(* Path index of a workspace (path_index.ts): the hints computed from the  *)
(* unmerged fragments of elements, the update of the index store, the      *)
(* lookup of an id in the index and the split of a merged element.         *)
(*                                                                         *)
(* An element id is modelled by its sequence of name parts; the full name  *)
(* of an id (the parts joined by '.') and the key of an index entry are    *)
(* modelled by the same sequence.  A mapping (plain object) is a function  *)
(* from keys to values and Object.keys enumerates it in the order of       *)
(* KeyOrder.                                                               *)
(***************************************************************************)
EXTENDS Integers, Sequences, FiniteSets, TLC

VARIABLES pathIndex, unmerged, lastCall, tasks

vars == <<pathIndex, unmerged, lastCall, tasks>>

(***************************************************************************)
(* Bounds                                                                  *)
(***************************************************************************)
MaxChanged == 2
MaxFragments == 3

\* the number of the store call that fails is at most MaxFailAt
MaxFailAt == 3

\* the number of the callers that read the index at the same time
MaxReaders == 2

\* the largest number of entries serialized or loaded by a call
MaxEntries == 3

(***************************************************************************)
(* Sequence helpers (lodash / Array methods)                               *)
(***************************************************************************)
RECURSIVE Concat(_)
Concat(seqs) ==
  IF seqs = <<>> THEN <<>> ELSE Head(seqs) \o Concat(Tail(seqs))

FlatMap(Op(_), seq) == Concat([i \in 1..Len(seq) |-> Op(seq[i])])

MapSeq(Op(_), seq) == [i \in 1..Len(seq) |-> Op(seq[i])]

Range(seq) == {seq[i] : i \in 1..Len(seq)}

RECURSIVE uniq(_)
uniq(seq) ==
  IF seq = <<>> THEN <<>>
  ELSE LET init == uniq(SubSeq(seq, 1, Len(seq) - 1))
           last == seq[Len(seq)]
       IN IF last \in Range(init) THEN init ELSE Append(init, last)

(***************************************************************************)
(* Values                                                                  *)
(***************************************************************************)
EmptyObject == [k \in {} |-> 0]

Scalar(n) == [t |-> "scalar", v |-> n]
List(l) == [t |-> "list", v |-> l]
Map(m) == [t |-> "map", v |-> m]
Undefined == [t |-> "undefined", v |-> 0]

isPlainObject(value) == value.t = "map"

KeyOrder == <<"a", "b", "f", "g", "l", "x", "y">>

ObjectKeys(m) == SelectSeq(KeyOrder, LAMBDA k : k \in DOMAIN m)

\* values.isDefined(obj[key])
isDefinedAt(m, key) == key \in DOMAIN m /\ m[key] # Undefined

(***************************************************************************)
(* Element ids                                                             *)
(***************************************************************************)
TypeNestedIdTypes == {"attr", "field", "annotation"}

createNestedID(elemID, nameParts) == elemID \o nameParts

\* the id of the top level element an id belongs to: a type is named by
\* two parts (adapter, type), an instance by three (adapter, type, name)
createTopLevelParentID(elemID) ==
  IF Len(elemID) > 2 /\ elemID[3] \notin TypeNestedIdTypes
  THEN SubSeq(elemID, 1, 3)
  ELSE SubSeq(elemID, 1, 2)

(***************************************************************************)
(* Paths, elements and fragments                                           *)
(***************************************************************************)
\* element.path of an element that has no path
NoPath == <<>>

F1 == <<"salto", "f1">>
F2 == <<"salto", "f2">>
F3 == <<"salto", "f3">>

ObjID == <<"salto", "obj">>
InstID == <<"salto", "obj", "inst">>
OtherID == <<"salto", "obj", "other">>

Field(parentID, name, annotations) ==
  [elemID |-> createNestedID(parentID, <<"field", name>>),
   annotations |-> annotations]

ObjectType(elemID, annotationRefTypes, annotations, fields, path) ==
  [kind |-> "ObjectType", elemID |-> elemID, path |-> path,
   annotationRefTypes |-> annotationRefTypes, annotations |-> annotations,
   fields |-> fields, value |-> EmptyObject]

InstanceElement(elemID, value, annotations, path) ==
  [kind |-> "InstanceElement", elemID |-> elemID, path |-> path,
   annotationRefTypes |-> EmptyObject, annotations |-> annotations,
   fields |-> EmptyObject, value |-> value]

isObjectType(element) == element.kind = "ObjectType"
isInstanceElement(element) == element.kind = "InstanceElement"

Fragment(value, path) == [value |-> value, path |-> path]
PathHint(key, value) == [key |-> key, value |-> value]

(***************************************************************************)
(* Path hints                                                              *)
(***************************************************************************)
\* getValuePathHints recursing on all the fragments under a key, those that
\* do not define the key too
RECURSIVE getValuePathHintsOfAllFragments(_, _)
getValuePathHintsOfAllFragments(fragments, elemID) ==
  IF Len(fragments) = 1
  THEN <<PathHint(elemID, <<fragments[1].path>>)>>
  ELSE IF \A i \in 1..Len(fragments) : isPlainObject(fragments[i].value)
  THEN LET allKeys == uniq(FlatMap(LAMBDA f : ObjectKeys(f.value.v), fragments))
           defining(key) ==
             MapSeq(LAMBDA f : Fragment(IF key \in DOMAIN f.value.v
                                        THEN f.value.v[key] ELSE Undefined, f.path),
                    fragments)
       IN Concat([i \in 1..Len(allKeys) |->
                    getValuePathHintsOfAllFragments(defining(allKeys[i]),
                                                    createNestedID(elemID, <<allKeys[i]>>))])
  ELSE <<>>

\* getValuePathHints emitting a hint of all the paths for fragments that
\* are not all mappings
RECURSIVE getValuePathHintsOfAmbiguous(_, _)
getValuePathHintsOfAmbiguous(fragments, elemID) ==
  IF Len(fragments) = 1
  THEN <<PathHint(elemID, <<fragments[1].path>>)>>
  ELSE IF \A i \in 1..Len(fragments) : isPlainObject(fragments[i].value)
  THEN LET allKeys == uniq(FlatMap(LAMBDA f : ObjectKeys(f.value.v), fragments))
           defining(key) ==
             MapSeq(LAMBDA f : Fragment(f.value.v[key], f.path),
                    SelectSeq(fragments, LAMBDA f : isDefinedAt(f.value.v, key)))
       IN Concat([i \in 1..Len(allKeys) |->
                    getValuePathHintsOfAmbiguous(defining(allKeys[i]),
                                                 createNestedID(elemID, <<allKeys[i]>>))])
  ELSE <<PathHint(elemID, MapSeq(LAMBDA f : f.path, fragments))>>

RECURSIVE getValuePathHints(_, _)
getValuePathHints(fragments, elemID) ==
  IF Len(fragments) = 1
  THEN <<PathHint(elemID, <<fragments[1].path>>)>>
  ELSE IF \A i \in 1..Len(fragments) : isPlainObject(fragments[i].value)
  THEN LET allKeys == uniq(FlatMap(LAMBDA f : ObjectKeys(f.value.v), fragments))
           defining(key) ==
             MapSeq(LAMBDA f : Fragment(f.value.v[key], f.path),
                    SelectSeq(fragments, LAMBDA f : isDefinedAt(f.value.v, key)))
       IN Concat([i \in 1..Len(allKeys) |->
                    getValuePathHints(defining(allKeys[i]),
                                      createNestedID(elemID, <<allKeys[i]>>))])
  ELSE <<>>

\* getAnnotationTypesPathHints without the single hint at id.annotation of
\* the only fragment that declares annotation types
getAnnotationTypesPathHintsPerKey(fragments) ==
  LET fragmentsWithNonEmptyAnnoTypes ==
        SelectSeq(fragments, LAMBDA f : f.value.annotationRefTypes # EmptyObject)
  IN FlatMap(LAMBDA f :
               MapSeq(LAMBDA annoKey :
                        PathHint(createNestedID(f.value.elemID,
                                                <<"annotation", annoKey>>),
                                 <<f.path>>),
                      ObjectKeys(f.value.annotationRefTypes)),
             fragmentsWithNonEmptyAnnoTypes)

\* getAnnotationTypesPathHints with, for the annotation types of several
\* fragments, the paths of all these fragments in the hint of every key
getAnnotationTypesPathHintsOfAllPaths(fragments) ==
  LET fragmentsWithNonEmptyAnnoTypes ==
        SelectSeq(fragments, LAMBDA f : f.value.annotationRefTypes # EmptyObject)
  IN IF Len(fragmentsWithNonEmptyAnnoTypes) = 1
     THEN <<PathHint(createNestedID(fragmentsWithNonEmptyAnnoTypes[1].value.elemID,
                                    <<"annotation">>),
                     <<fragmentsWithNonEmptyAnnoTypes[1].path>>)>>
     ELSE FlatMap(LAMBDA f :
                    MapSeq(LAMBDA annoKey :
                             PathHint(createNestedID(f.value.elemID,
                                                     <<"annotation", annoKey>>),
                                      MapSeq(LAMBDA g : g.path,
                                             fragmentsWithNonEmptyAnnoTypes)),
                           ObjectKeys(f.value.annotationRefTypes)),
                  fragmentsWithNonEmptyAnnoTypes)

getAnnotationTypesPathHints(fragments) ==
  LET fragmentsWithNonEmptyAnnoTypes ==
        SelectSeq(fragments, LAMBDA f : f.value.annotationRefTypes # EmptyObject)
  IN IF Len(fragmentsWithNonEmptyAnnoTypes) = 1
     THEN <<PathHint(createNestedID(fragmentsWithNonEmptyAnnoTypes[1].value.elemID,
                                    <<"annotation">>),
                     <<fragmentsWithNonEmptyAnnoTypes[1].path>>)>>
     ELSE FlatMap(LAMBDA f :
                    MapSeq(LAMBDA annoKey :
                             PathHint(createNestedID(f.value.elemID,
                                                     <<"annotation", annoKey>>),
                                      <<f.path>>),
                           ObjectKeys(f.value.annotationRefTypes)),
                  fragmentsWithNonEmptyAnnoTypes)

getAnnotationPathHints(fragments) ==
  LET elem == fragments[1].value
  IN getValuePathHints(
       MapSeq(LAMBDA f : Fragment(Map(f.value.annotations), f.path), fragments),
       IF isInstanceElement(elem) THEN elem.elemID
       ELSE createNestedID(elem.elemID, <<"attr">>))

\* getFieldPathHints without the hint of the field id that lists the paths
\* of all the fragments of the field
getFieldPathHintsWithoutCatchAll(fragments) ==
  IF Len(fragments) = 0 THEN <<>>
  ELSE IF Len(fragments) = 1
  THEN <<PathHint(fragments[1].value.elemID, <<fragments[1].path>>)>>
  ELSE getValuePathHints(
         MapSeq(LAMBDA f : Fragment(Map(f.value.annotations), f.path), fragments),
         fragments[1].value.elemID)

getFieldPathHints(fragments) ==
  IF Len(fragments) = 0 THEN <<>>
  ELSE IF Len(fragments) = 1
  THEN <<PathHint(fragments[1].value.elemID, <<fragments[1].path>>)>>
  ELSE getValuePathHints(
         MapSeq(LAMBDA f : Fragment(Map(f.value.annotations), f.path), fragments),
         fragments[1].value.elemID)
       \o <<PathHint(fragments[1].value.elemID,
                     MapSeq(LAMBDA f : f.path, fragments))>>

getFieldsPathHints(fragments) ==
  LET fragmentsWithFields ==
        SelectSeq(fragments, LAMBDA f : f.value.fields # EmptyObject)
  IN IF Len(fragmentsWithFields) = 1
     THEN <<PathHint(createNestedID(fragmentsWithFields[1].value.elemID, <<"field">>),
                     <<fragmentsWithFields[1].path>>)>>
     ELSE LET fieldNames ==
                uniq(FlatMap(LAMBDA f : ObjectKeys(f.value.fields), fragmentsWithFields))
          IN FlatMap(LAMBDA fieldName :
                       getFieldPathHints(
                         MapSeq(LAMBDA f : Fragment(f.value.fields[fieldName], f.path),
                                SelectSeq(fragments,
                                          LAMBDA f : isDefinedAt(f.value.fields, fieldName)))),
                     fieldNames)

\* getElementPathHints without the hint of the element id that lists the
\* paths of all the fragments
getElementPathHintsWithoutCatchAll(elementFragments) ==
  IF Len(elementFragments) = 0 THEN <<>>
  ELSE IF Len(elementFragments) = 1
  THEN <<PathHint(elementFragments[1].value.elemID, <<elementFragments[1].path>>)>>
  ELSE LET annoTypesHints == getAnnotationTypesPathHints(elementFragments)
           annotationHints == getAnnotationPathHints(elementFragments)
           fieldHints ==
             IF \A i \in 1..Len(elementFragments) : isObjectType(elementFragments[i].value)
             THEN getFieldsPathHints(elementFragments)
             ELSE <<>>
           valueHints ==
             IF \A i \in 1..Len(elementFragments) : isInstanceElement(elementFragments[i].value)
             THEN getValuePathHints(
                    MapSeq(LAMBDA f : Fragment(Map(f.value.value), f.path), elementFragments),
                    elementFragments[1].value.elemID)
             ELSE <<>>
       IN annoTypesHints \o annotationHints \o fieldHints \o valueHints

\* getElementPathHints without the return of the single hint of an element
\* that has one fragment
getElementPathHintsWithoutSingleFragment(elementFragments) ==
  IF Len(elementFragments) = 0 THEN <<>>
  ELSE LET annoTypesHints == getAnnotationTypesPathHints(elementFragments)
           annotationHints == getAnnotationPathHints(elementFragments)
           fieldHints ==
             IF \A i \in 1..Len(elementFragments) : isObjectType(elementFragments[i].value)
             THEN getFieldsPathHints(elementFragments)
             ELSE <<>>
           valueHints ==
             IF \A i \in 1..Len(elementFragments) : isInstanceElement(elementFragments[i].value)
             THEN getValuePathHints(
                    MapSeq(LAMBDA f : Fragment(Map(f.value.value), f.path), elementFragments),
                    elementFragments[1].value.elemID)
             ELSE <<>>
       IN annoTypesHints \o annotationHints \o fieldHints \o valueHints
          \o <<PathHint(elementFragments[1].value.elemID,
                        MapSeq(LAMBDA f : f.path, elementFragments))>>

\* getElementPathHints with a hint of the element id that lists the path of
\* the first fragment only
getElementPathHintsOfFirstFragment(elementFragments) ==
  IF Len(elementFragments) = 0 THEN <<>>
  ELSE IF Len(elementFragments) = 1
  THEN <<PathHint(elementFragments[1].value.elemID, <<elementFragments[1].path>>)>>
  ELSE LET annoTypesHints == getAnnotationTypesPathHints(elementFragments)
           annotationHints == getAnnotationPathHints(elementFragments)
           fieldHints ==
             IF \A i \in 1..Len(elementFragments) : isObjectType(elementFragments[i].value)
             THEN getFieldsPathHints(elementFragments)
             ELSE <<>>
           valueHints ==
             IF \A i \in 1..Len(elementFragments) : isInstanceElement(elementFragments[i].value)
             THEN getValuePathHints(
                    MapSeq(LAMBDA f : Fragment(Map(f.value.value), f.path), elementFragments),
                    elementFragments[1].value.elemID)
             ELSE <<>>
       IN annoTypesHints \o annotationHints \o fieldHints \o valueHints
          \o <<PathHint(elementFragments[1].value.elemID, <<elementFragments[1].path>>)>>

getElementPathHints(elementFragments) ==
  IF Len(elementFragments) = 0 THEN <<>>
  ELSE IF Len(elementFragments) = 1
  THEN <<PathHint(elementFragments[1].value.elemID, <<elementFragments[1].path>>)>>
  ELSE LET annoTypesHints == getAnnotationTypesPathHints(elementFragments)
           annotationHints == getAnnotationPathHints(elementFragments)
           fieldHints ==
             IF \A i \in 1..Len(elementFragments) : isObjectType(elementFragments[i].value)
             THEN getFieldsPathHints(elementFragments)
             ELSE <<>>
           valueHints ==
             IF \A i \in 1..Len(elementFragments) : isInstanceElement(elementFragments[i].value)
             THEN getValuePathHints(
                    MapSeq(LAMBDA f : Fragment(Map(f.value.value), f.path), elementFragments),
                    elementFragments[1].value.elemID)
             ELSE <<>>
       IN annoTypesHints \o annotationHints \o fieldHints \o valueHints
          \o <<PathHint(elementFragments[1].value.elemID,
                        MapSeq(LAMBDA f : f.path, elementFragments))>>

\* _.groupBy(elements, e => e.elemID.getFullName()): the groups in the order
\* their ids are first seen, each group in the order of the input
groupByID(elements) ==
  LET ids == uniq(MapSeq(LAMBDA e : e.elemID, elements))
  IN MapSeq(LAMBDA id : SelectSeq(elements, LAMBDA e : e.elemID = id), ids)

getElementsPathHints(unmergedElements) ==
  FlatMap(LAMBDA elementFragments :
            getElementPathHints(
              MapSeq(LAMBDA element : Fragment(element, element.path),
                     SelectSeq(elementFragments, LAMBDA element : element.path # NoPath))),
          groupByID(unmergedElements))

\* getTopLevelPathHints dropping the elements without a path after the
\* grouping, not before it
getTopLevelPathHintsFilteringLate(unmergedElements) ==
  MapSeq(LAMBDA group :
           PathHint(group[1].elemID,
                    MapSeq(LAMBDA e : e.path,
                           SelectSeq(group, LAMBDA e : e.path # NoPath))),
         groupByID(unmergedElements))

\* getTopLevelPathHints without the filter of the elements that have no path
getTopLevelPathHintsOfAllElements(unmergedElements) ==
  MapSeq(LAMBDA group : PathHint(group[1].elemID, MapSeq(LAMBDA e : e.path, group)),
         groupByID(unmergedElements))

getTopLevelPathHints(unmergedElements) ==
  LET topLevelElementsWithPath == SelectSeq(unmergedElements, LAMBDA e : e.path # NoPath)
  IN MapSeq(LAMBDA group : PathHint(group[1].elemID, MapSeq(LAMBDA e : e.path, group)),
            groupByID(topLevelElementsWithPath))

(***************************************************************************)
(* The index store (RemoteMap<Path[]>)                                     *)
(***************************************************************************)
EmptyIndex == [k \in {} |-> <<>>]

indexSet(index, key, value) ==
  [k \in DOMAIN index \cup {key} |-> IF k = key THEN value ELSE index[k]]

\* the entries are written in their order: a later entry of a key wins
RECURSIVE indexSetAll(_, _)
indexSetAll(index, entries) ==
  IF entries = <<>> THEN index
  ELSE indexSetAll(indexSet(index, Head(entries).key, Head(entries).value),
                   Tail(entries))

indexDeleteAll(index, keys) == [k \in DOMAIN index \ keys |-> index[k]]

\* unmergedElementIDs?: Set<string>
NoIDs == [defined |-> FALSE, ids |-> {}]
IDs(ids) == [defined |-> TRUE, ids |-> ids]

(***************************************************************************)
(* updateIndex.  failAt is the number of the store call that fails (0: no  *)
(* call fails); a failed call changes nothing in the store and the         *)
(* rejection leaves the function.  calls lists the store calls issued and  *)
(* deleted is the argument of the deleteAll call.                          *)
(***************************************************************************)
Outcome(index, status, calls, deleted) ==
  [index |-> index, status |-> status, calls |-> calls, deleted |-> deleted]

callHintsFunction(getHintsFunction, unmergedElements) ==
  IF getHintsFunction = "getElementsPathHints"
  THEN getElementsPathHints(unmergedElements)
  ELSE getTopLevelPathHints(unmergedElements)

\* entriesToDelete testing the key itself, not its top level parent
entriesToDeleteByKey(index, unmergedElementIDs) ==
  {key \in DOMAIN index : key \notin unmergedElementIDs.ids}

\* entriesToDelete with the negation of the membership test lost
entriesToDeleteOfLiveElements(index, unmergedElementIDs) ==
  {key \in DOMAIN index :
     createTopLevelParentID(key) \in unmergedElementIDs.ids}

\* the entries of removed elements: the keys whose top level parent is not
\* among the ids of the unmerged elements
entriesToDelete(index, unmergedElementIDs) ==
  {key \in DOMAIN index :
     createTopLevelParentID(key) \notin unmergedElementIDs.ids}

\* updateIndex going on to setAll when clear or deleteAll fails
updateIndexSwallowingFailure(index, changedUnmergedElements, unmergedElementIDs, getHintsFunction, failAt) ==
  LET entriesToSet == callHintsFunction(getHintsFunction, changedUnmergedElements)
      setEntries(current, calls, deleted) ==
        IF failAt = Len(calls) + 1
        THEN Outcome(current, "failed", Append(calls, "setAll"), deleted)
        ELSE Outcome(indexSetAll(current, entriesToSet), "done",
                     Append(calls, "setAll"), deleted)
  IN IF ~unmergedElementIDs.defined
     THEN IF failAt = 1
          THEN setEntries(index, <<"clear">>, {})
          ELSE setEntries(EmptyIndex, <<"clear">>, {})
     ELSE IF failAt = 1
          THEN Outcome(index, "failed", <<"keys">>, {})
          ELSE IF failAt = 2
          THEN setEntries(index, <<"keys", "deleteAll">>,
                          entriesToDelete(index, unmergedElementIDs))
          ELSE setEntries(indexDeleteAll(index, entriesToDelete(index, unmergedElementIDs)),
                          <<"keys", "deleteAll">>,
                          entriesToDelete(index, unmergedElementIDs))

\* updateIndex that does not clear the index when no ids are passed
updateIndexWithoutClear(index, changedUnmergedElements, unmergedElementIDs, getHintsFunction, failAt) ==
  LET entriesToSet == callHintsFunction(getHintsFunction, changedUnmergedElements)
      setEntries(current, calls, deleted) ==
        IF failAt = Len(calls) + 1
        THEN Outcome(current, "failed", Append(calls, "setAll"), deleted)
        ELSE Outcome(indexSetAll(current, entriesToSet), "done",
                     Append(calls, "setAll"), deleted)
  IN IF ~unmergedElementIDs.defined
     THEN IF failAt = 1
          THEN Outcome(index, "failed", <<"clear">>, {})
          ELSE setEntries(index, <<"clear">>, {})
     ELSE IF failAt = 1
          THEN Outcome(index, "failed", <<"keys">>, {})
          ELSE IF failAt = 2
          THEN Outcome(index, "failed", <<"keys", "deleteAll">>,
                       entriesToDelete(index, unmergedElementIDs))
          ELSE setEntries(indexDeleteAll(index, entriesToDelete(index, unmergedElementIDs)),
                          <<"keys", "deleteAll">>,
                          entriesToDelete(index, unmergedElementIDs))

\* updateIndex adding the new paths of a key to the paths the index holds for
\* it, where updateIndex overwrites them
updateIndexAccumulating(index, changedUnmergedElements, unmergedElementIDs, getHintsFunction, failAt) ==
  LET entriesToSet == callHintsFunction(getHintsFunction, changedUnmergedElements)
      written(current) == indexSetAll(EmptyIndex, entriesToSet)
      accumulated(current) ==
        [k \in DOMAIN current \cup DOMAIN written(current) |->
           (IF k \in DOMAIN current THEN current[k] ELSE <<>>)
           \o (IF k \in DOMAIN written(current) THEN written(current)[k] ELSE <<>>)]
      setEntries(current, calls, deleted) ==
        IF failAt = Len(calls) + 1
        THEN Outcome(current, "failed", Append(calls, "setAll"), deleted)
        ELSE Outcome(accumulated(current), "done", Append(calls, "setAll"), deleted)
  IN IF ~unmergedElementIDs.defined
     THEN IF failAt = 1
          THEN Outcome(index, "failed", <<"clear">>, {})
          ELSE setEntries(EmptyIndex, <<"clear">>, {})
     ELSE IF failAt = 1
          THEN Outcome(index, "failed", <<"keys">>, {})
          ELSE IF failAt = 2
          THEN Outcome(index, "failed", <<"keys", "deleteAll">>,
                       entriesToDelete(index, unmergedElementIDs))
          ELSE setEntries(indexDeleteAll(index, entriesToDelete(index, unmergedElementIDs)),
                          <<"keys", "deleteAll">>,
                          entriesToDelete(index, unmergedElementIDs))

updateIndex(index, changedUnmergedElements, unmergedElementIDs, getHintsFunction, failAt) ==
  LET entriesToSet == callHintsFunction(getHintsFunction, changedUnmergedElements)
      setEntries(current, calls, deleted) ==
        IF failAt = Len(calls) + 1
        THEN Outcome(current, "failed", Append(calls, "setAll"), deleted)
        ELSE Outcome(indexSetAll(current, entriesToSet), "done",
                     Append(calls, "setAll"), deleted)
  IN IF ~unmergedElementIDs.defined
     THEN IF failAt = 1
          THEN Outcome(index, "failed", <<"clear">>, {})
          ELSE setEntries(EmptyIndex, <<"clear">>, {})
     ELSE IF failAt = 1
          THEN Outcome(index, "failed", <<"keys">>, {})
          ELSE IF failAt = 2
          THEN Outcome(index, "failed", <<"keys", "deleteAll">>,
                       entriesToDelete(index, unmergedElementIDs))
          ELSE setEntries(indexDeleteAll(index, entriesToDelete(index, unmergedElementIDs)),
                          <<"keys", "deleteAll">>,
                          entriesToDelete(index, unmergedElementIDs))

updatePathIndex(index, changedUnmergedElements, unmergedElementIDs, failAt) ==
  updateIndex(index, changedUnmergedElements, unmergedElementIDs,
              "getElementsPathHints", failAt)

updateTopLevelPathIndex(index, changedUnmergedElements, unmergedElementIDs, failAt) ==
  updateIndex(index, changedUnmergedElements, unmergedElementIDs,
              "getTopLevelPathHints", failAt)

(***************************************************************************)
(* updateIndex one store call at a time: an update in flight is the call   *)
(* with the store calls that have returned so far; each await of lines     *)
(* 199-211 lets the calls of other callers run before the next store call  *)
(***************************************************************************)
\* updateIndexStep with a clear that takes effect with the setAll only: the
\* store is never seen between the two
updateIndexStepClearingLate(index, update) ==
  LET entriesToSet ==
        callHintsFunction(IF update.op = "updatePathIndex" THEN "getElementsPathHints"
                          ELSE "getTopLevelPathHints",
                          update.changedUnmergedElements)
  IN IF update.calls = <<>>
     THEN IF ~update.unmergedElementIDs.defined
          THEN Outcome(index, "awaiting", <<"clear">>, {})
          ELSE Outcome(index, "awaiting", <<"keys">>,
                       entriesToDelete(index, update.unmergedElementIDs))
     ELSE IF update.calls = <<"keys">>
     THEN Outcome(indexDeleteAll(index, update.deleted), "awaiting",
                  <<"keys", "deleteAll">>, update.deleted)
     ELSE IF update.calls = <<"clear">>
     THEN Outcome(indexSetAll(EmptyIndex, entriesToSet), "done",
                  Append(update.calls, "setAll"), update.deleted)
     ELSE Outcome(indexSetAll(index, entriesToSet), "done",
                  Append(update.calls, "setAll"), update.deleted)

\* the next store call of an update in flight returns: clear, or keys and
\* then deleteAll of the entries to delete, and setAll of the hints last
updateIndexStep(index, update) ==
  LET entriesToSet ==
        callHintsFunction(IF update.op = "updatePathIndex" THEN "getElementsPathHints"
                          ELSE "getTopLevelPathHints",
                          update.changedUnmergedElements)
  IN IF update.calls = <<>>
     THEN IF ~update.unmergedElementIDs.defined
          THEN Outcome(EmptyIndex, "awaiting", <<"clear">>, {})
          ELSE Outcome(index, "awaiting", <<"keys">>,
                       entriesToDelete(index, update.unmergedElementIDs))
     ELSE IF update.calls = <<"keys">>
     THEN Outcome(indexDeleteAll(index, update.deleted), "awaiting",
                  <<"keys", "deleteAll">>, update.deleted)
     ELSE Outcome(indexSetAll(index, entriesToSet), "done",
                  Append(update.calls, "setAll"), update.deleted)

(***************************************************************************)
(* loadPathIndex and serializePathIndexByAccount.  An entry of the index   *)
(* is a key with its paths; a parsed entry is the pair of the two; a       *)
(* stream is the serialized list of the pairs it was given                 *)
(***************************************************************************)
RemoteMapEntry(key, value) == [key |-> key, value |-> value]

\* parsedEntries.flatMap(e => ({ key: e[0], value: e[1] })): what the
\* callback returns is not an array and is appended as it is
loadPathIndex(parsedEntries) ==
  FlatMap(LAMBDA e : <<RemoteMapEntry(e[1], e[2])>>, parsedEntries)

getSerializedStream(items) == [stream |-> items]

serializedPathIndex(entries) ==
  getSerializedStream(MapSeq(LAMBDA e : <<e.key, e.value>>, entries))

\* ElemID.fromFullName(key).adapter: the first name part of the key
adapter(key) == key[1]

\* ElemID.fromFullName(key).typeName: the second name part of the key
typeName(key) == key[2]

\* _.groupBy(entries, iteratee): each entry in turn is appended to the
\* group of its name, and a name is added after the others when it is new
RECURSIVE groupBy(_, _)
groupBy(entries, iteratee) ==
  IF entries = <<>> THEN <<>>
  ELSE LET groups == groupBy(SubSeq(entries, 1, Len(entries) - 1), iteratee)
           entry == entries[Len(entries)]
           name == IF iteratee = "adapter" THEN adapter(entry.key) ELSE typeName(entry.key)
       IN IF \E i \in 1..Len(groups) : groups[i].name = name
          THEN [i \in 1..Len(groups) |->
                  IF groups[i].name = name
                  THEN [groups[i] EXCEPT !.value = Append(@, entry)]
                  ELSE groups[i]]
          ELSE Append(groups, [name |-> name, value |-> <<entry>>])

\* serializePathIndexByAccount grouping the entries by the type name of
\* their key
serializePathIndexByTypeName(entries) ==
  MapSeq(LAMBDA group : [name |-> group.name, value |-> serializedPathIndex(group.value)],
         groupBy(entries, "typeName"))

\* _.mapValues(_.groupBy(entries, adapter of the key), serializedPathIndex)
serializePathIndexByAccount(entries) ==
  MapSeq(LAMBDA group : [name |-> group.name, value |-> serializedPathIndex(group.value)],
         groupBy(entries, "adapter"))

(***************************************************************************)
(* getFromPathIndex.  gets lists the keys looked up, in order; failAt is   *)
(* the number of the index.get call that fails (0: none).                  *)
(***************************************************************************)
Found(status, paths, gets) == [status |-> status, paths |-> paths, gets |-> gets]

\* getFromPathIndexLoop returning all the hints of an ancestor
RECURSIVE getFromPathIndexLoopAllHints(_, _, _, _, _, _)
getFromPathIndexLoopAllHints(idParts, isExactMatch, topLevelKey, index, gets, failAt) ==
  LET key == idParts
      issued == Append(gets, key)
      popped == SubSeq(idParts, 1, Len(idParts) - 1)
  IN IF failAt = Len(issued)
     THEN Found("failed", <<>>, issued)
     ELSE IF key \in DOMAIN index /\ Len(index[key]) > 0
     THEN Found("done", index[key], issued)
     ELSE IF Len(popped) > 0 /\ key # topLevelKey
     THEN getFromPathIndexLoopAllHints(popped, FALSE, topLevelKey, index, issued, failAt)
     ELSE Found("done", <<>>, issued)

\* getFromPathIndexLoop returning a single hint of an exact match too
RECURSIVE getFromPathIndexLoopFirstHint(_, _, _, _, _, _)
getFromPathIndexLoopFirstHint(idParts, isExactMatch, topLevelKey, index, gets, failAt) ==
  LET key == idParts
      issued == Append(gets, key)
      popped == SubSeq(idParts, 1, Len(idParts) - 1)
  IN IF failAt = Len(issued)
     THEN Found("failed", <<>>, issued)
     ELSE IF key \in DOMAIN index /\ Len(index[key]) > 0
     THEN Found("done", <<index[key][1]>>, issued)
     ELSE IF Len(popped) > 0 /\ key # topLevelKey
     THEN getFromPathIndexLoopFirstHint(popped, FALSE, topLevelKey, index, issued, failAt)
     ELSE Found("done", <<>>, issued)

RECURSIVE getFromPathIndexLoop(_, _, _, _, _, _)
getFromPathIndexLoop(idParts, isExactMatch, topLevelKey, index, gets, failAt) ==
  LET key == idParts
      issued == Append(gets, key)
      popped == SubSeq(idParts, 1, Len(idParts) - 1)
  IN IF failAt = Len(issued)
     THEN Found("failed", <<>>, issued)
     ELSE IF key \in DOMAIN index /\ Len(index[key]) > 0
     THEN Found("done", IF isExactMatch THEN index[key] ELSE <<index[key][1]>>, issued)
     ELSE IF Len(popped) > 0 /\ key # topLevelKey
     THEN getFromPathIndexLoop(popped, FALSE, topLevelKey, index, issued, failAt)
     ELSE Found("done", <<>>, issued)

getFromPathIndexCall(elemID, index, failAt) ==
  getFromPathIndexLoop(elemID, TRUE, createTopLevelParentID(elemID), index, <<>>, failAt)

getFromPathIndex(elemID, index) == getFromPathIndexCall(elemID, index, 0).paths

(***************************************************************************)
(* The merge of the fragments of one element (the merged element has no    *)
(* path).  Fragments can be merged when no value is defined by two of      *)
(* them, mappings apart.                                                   *)
(***************************************************************************)
RECURSIVE canMergeValues(_, _)
canMergeValues(v1, v2) ==
  \/ v1 = Undefined
  \/ v2 = Undefined
  \/ /\ isPlainObject(v1)
     /\ isPlainObject(v2)
     /\ \A k \in DOMAIN v1.v \cap DOMAIN v2.v : canMergeValues(v1.v[k], v2.v[k])

RECURSIVE mergeValues(_, _)
mergeValues(v1, v2) ==
  IF v1 = Undefined THEN v2
  ELSE IF v2 = Undefined THEN v1
  ELSE Map([k \in DOMAIN v1.v \cup DOMAIN v2.v |->
              IF k \notin DOMAIN v2.v THEN v1.v[k]
              ELSE IF k \notin DOMAIN v1.v THEN v2.v[k]
              ELSE mergeValues(v1.v[k], v2.v[k])])

canMergeElements(e1, e2) ==
  /\ e1.elemID = e2.elemID
  /\ e1.kind = e2.kind
  /\ DOMAIN e1.annotationRefTypes \cap DOMAIN e2.annotationRefTypes = {}
  /\ canMergeValues(Map(e1.annotations), Map(e2.annotations))
  /\ canMergeValues(Map(e1.value), Map(e2.value))
  /\ \A n \in DOMAIN e1.fields \cap DOMAIN e2.fields :
       canMergeValues(Map(e1.fields[n].annotations), Map(e2.fields[n].annotations))

mergeTwoElements(e1, e2) ==
  [kind |-> e1.kind, elemID |-> e1.elemID, path |-> NoPath,
   annotationRefTypes |->
     [k \in DOMAIN e1.annotationRefTypes \cup DOMAIN e2.annotationRefTypes |->
        IF k \in DOMAIN e1.annotationRefTypes
        THEN e1.annotationRefTypes[k] ELSE e2.annotationRefTypes[k]],
   annotations |-> mergeValues(Map(e1.annotations), Map(e2.annotations)).v,
   fields |->
     [n \in DOMAIN e1.fields \cup DOMAIN e2.fields |->
        IF n \notin DOMAIN e2.fields THEN e1.fields[n]
        ELSE IF n \notin DOMAIN e1.fields THEN e2.fields[n]
        ELSE [elemID |-> e1.fields[n].elemID,
              annotations |-> mergeValues(Map(e1.fields[n].annotations),
                                          Map(e2.fields[n].annotations)).v]],
   value |-> mergeValues(Map(e1.value), Map(e2.value)).v]

canMerge(fragments) ==
  \A i, j \in 1..Len(fragments) : i < j => canMergeElements(fragments[i], fragments[j])

RECURSIVE mergeElements(_)
mergeElements(fragments) ==
  IF Len(fragments) = 1 THEN [fragments[1] EXCEPT !.path = NoPath]
  ELSE mergeTwoElements(mergeElements(SubSeq(fragments, 1, Len(fragments) - 1)),
                        fragments[Len(fragments)])

(***************************************************************************)
(* splitElementByPath and the filter it applies (filterByID)               *)
(***************************************************************************)
\* filterByPathHint accepting an id whose lookup returns paths, whatever
\* the hint
filterByPathHintOfAnyHint(id, hint, index) ==
  getFromPathIndex(id, index) # <<>>

filterByPathHint(id, hint, index) ==
  LET idHints == getFromPathIndex(id, index)
  IN \E i \in 1..Len(idHints) : idHints[i] = hint

\* the ids filterByID passes to its filter for a value: the id of the
\* value and the ids of the values nested in it
RECURSIVE ValueIDs(_, _)
ValueIDs(id, value) ==
  IF value.t = "map"
  THEN {id} \cup UNION {ValueIDs(createNestedID(id, <<k>>), value.v[k]) : k \in DOMAIN value.v}
  ELSE IF value.t = "list"
  THEN {id} \cup UNION {ValueIDs(createNestedID(id, <<ToString(i - 1)>>), value.v[i]) :
                          i \in 1..Len(value.v)}
  ELSE {id}

\* the id the annotations of an element are filtered under
annotationsID(element) ==
  IF isInstanceElement(element) THEN element.elemID
  ELSE createNestedID(element.elemID, <<"attr">>)

\* the ids filterByID passes to its filter for an element
ElementIDs(element) ==
  {element.elemID}
  \cup {createNestedID(element.elemID, <<"annotation", a>>) :
          a \in DOMAIN element.annotationRefTypes}
  \cup ValueIDs(annotationsID(element), Map(element.annotations))
  \cup ValueIDs(element.elemID, Map(element.value))
  \cup UNION {ValueIDs(element.fields[n].elemID, Map(element.fields[n].annotations)) :
                n \in DOMAIN element.fields}

\* filterByID of a value: the value without the sub-values whose id the
\* filter rejects (accepted is the set of the ids the filter accepts);
\* Undefined when the id of the value is rejected or when nothing of a
\* mapping or a list is left
RECURSIVE filterValueByID(_, _, _)
filterValueByID(id, value, accepted) ==
  IF id \notin accepted THEN Undefined
  ELSE IF value.t = "map"
  THEN LET filtered == [k \in DOMAIN value.v |->
                          filterValueByID(createNestedID(id, <<k>>), value.v[k], accepted)]
           kept == {k \in DOMAIN value.v : filtered[k] # Undefined}
       IN IF kept = {} THEN Undefined ELSE Map([k \in kept |-> filtered[k]])
  ELSE IF value.t = "list"
  THEN LET filtered == [i \in 1..Len(value.v) |->
                          filterValueByID(createNestedID(id, <<ToString(i - 1)>>),
                                          value.v[i], accepted)]
           kept == SelectSeq(filtered, LAMBDA item : item # Undefined)
       IN IF kept = <<>> THEN Undefined ELSE List(kept)
  ELSE value

\* a filtered mapping of an element: empty when nothing is left
filterValues(id, values, accepted) ==
  LET filtered == filterValueByID(id, Map(values), accepted)
  IN IF filtered = Undefined THEN EmptyObject ELSE filtered.v

isEmptyElement(element) ==
  /\ element.annotationRefTypes = EmptyObject
  /\ element.annotations = EmptyObject
  /\ element.fields = EmptyObject
  /\ element.value = EmptyObject

\* filterByID of an element: <<>> when the element is dropped, else the
\* filtered copy
filterByID(element, accepted) ==
  IF element.elemID \notin accepted THEN <<>>
  ELSE LET keptFields == {n \in DOMAIN element.fields : element.fields[n].elemID \in accepted}
           filtered ==
             [kind |-> element.kind, elemID |-> element.elemID, path |-> element.path,
              annotationRefTypes |->
                [k \in {a \in DOMAIN element.annotationRefTypes :
                          createNestedID(element.elemID, <<"annotation", a>>) \in accepted}
                   |-> element.annotationRefTypes[k]],
              annotations |->
                filterValues(annotationsID(element), element.annotations, accepted),
              fields |->
                [n \in keptFields |->
                   [elemID |-> element.fields[n].elemID,
                    annotations |-> filterValues(element.fields[n].elemID,
                                                 element.fields[n].annotations, accepted)]],
              value |-> filterValues(element.elemID, element.value, accepted)]
       IN IF isEmptyElement(filtered) THEN <<>> ELSE <<filtered>>

\* the copies of an element for the hints, given for each hint (by its
\* place) the ids its filter accepts: the filtered copies that are left,
\* each with the path of its hint
filteredElements(element, pathHints, accepted) ==
  Concat([i \in 1..Len(pathHints) |->
            LET filteredElement == filterByID(element, accepted[i])
            IN IF filteredElement # <<>>
               THEN <<[filteredElement[1] EXCEPT !.path = pathHints[i]]>>
               ELSE <<>>])

\* splitElementByPath returning the clone of an element that is not split
\* with the path the element came with
splitElementByPathKeepingPath(element, index) ==
  LET pathHints == getFromPathIndex(element.elemID, index)
      accepted == [i \in 1..Len(pathHints) |->
                     {id \in ElementIDs(element) : filterByPathHint(id, pathHints[i], index)}]
  IN IF Len(pathHints) <= 1
     THEN <<element>>
     ELSE filteredElements(element, pathHints, accepted)

splitElementByPath(element, index) ==
  LET pathHints == getFromPathIndex(element.elemID, index)
      accepted == [i \in 1..Len(pathHints) |->
                     {id \in ElementIDs(element) : filterByPathHint(id, pathHints[i], index)}]
  IN IF Len(pathHints) <= 1
     THEN <<[element EXCEPT !.path = IF pathHints = <<>> THEN NoPath ELSE pathHints[1]]>>
     ELSE filteredElements(element, pathHints, accepted)

(***************************************************************************)
(* The unmerged elements and the ids the operations are called with        *)
(***************************************************************************)
InstA == InstanceElement(InstID, [a |-> Scalar(1)], EmptyObject, F1)
InstB == InstanceElement(InstID, [b |-> Scalar(2)], EmptyObject, F2)
InstNestedX == InstanceElement(InstID, [a |-> Map([x |-> Scalar(1)])], EmptyObject, F1)
InstNestedY == InstanceElement(InstID, [a |-> Map([y |-> Scalar(2)])], EmptyObject, F2)
InstList == InstanceElement(InstID, [l |-> List(<<Scalar(1)>>), b |-> Undefined],
                            EmptyObject, F3)
InstListA == InstanceElement(InstID, [l |-> List(<<Scalar(2)>>), a |-> Scalar(1)],
                             EmptyObject, F2)
InstNoPath == InstanceElement(InstID, [a |-> Scalar(1)], EmptyObject, NoPath)
OtherInst == InstanceElement(OtherID, [a |-> Scalar(1)], EmptyObject, F3)
ObjAnno == ObjectType(ObjID, [a |-> "string"], [a |-> Scalar(1)], EmptyObject, F1)
ObjAnnoA == ObjectType(ObjID, [a |-> "string"], EmptyObject, EmptyObject, F2)
ObjFields == ObjectType(ObjID, EmptyObject, EmptyObject,
                        [f |-> Field(ObjID, "f", [x |-> Scalar(1)])], F2)
ObjMixed == ObjectType(ObjID, [b |-> "string"], [b |-> Scalar(2)],
                       [f |-> Field(ObjID, "f", [y |-> Scalar(2)]),
                        g |-> Field(ObjID, "g", EmptyObject)], F3)

\* the elements the index is built from
UnmergedElements ==
  {InstA, InstB, InstNestedX, InstNestedY, InstList, InstListA, InstNoPath, OtherInst,
   ObjAnno, ObjAnnoA, ObjFields, ObjMixed}

\* the elements the updates of a living index are called with
ChangedElements == {InstA, InstB, InstNoPath, ObjAnno, ObjMixed}

\* the lists of at most n distinct elements of a set
RECURSIVE ElementLists(_, _)
ElementLists(elements, n) ==
  IF n = 0 THEN {<<>>}
  ELSE LET shorter == ElementLists(elements, n - 1)
       IN shorter \cup
          {Append(l, e) : l \in shorter, e \in elements}

Distinct(l) == \A i, j \in 1..Len(l) : i # j => l[i] # l[j]

ChangedLists == {l \in ElementLists(ChangedElements, MaxChanged) : Distinct(l)}

\* the changed elements of the updates that fail
FailingLists == {l \in ChangedLists : Len(l) <= 1}

FragmentLists == {l \in ElementLists(UnmergedElements, MaxFragments) : Distinct(l)}

UnmergedElementIDs == {NoIDs} \cup {IDs(ids) : ids \in SUBSET {ObjID, InstID}}

LookupIDs ==
  {ObjID, InstID, OtherID} \cup
  {createNestedID(InstID, n) : n \in {<<"a">>, <<"b">>, <<"c">>, <<"l">>, <<"l", "0">>,
                                      <<"a", "x">>, <<"a", "y">>, <<"a", "x", "c">>}} \cup
  {createNestedID(ObjID, n) : n \in {<<"attr">>, <<"attr", "a">>, <<"attr", "b">>,
                                     <<"annotation">>, <<"annotation", "a">>,
                                     <<"field">>, <<"field", "f">>, <<"field", "f", "x">>,
                                     <<"field", "g">>}}

(***************************************************************************)
(* Calls that read the index at the same time.  A call runs up to an       *)
(* index.get, awaits it, and goes on when the get returns, up to the next  *)
(* get or to its own return; between two such steps of a call the steps of *)
(* the other calls may run.  The filters splitElementByPath starts for     *)
(* the hints (Promise.all) and the filters filterByID starts for the       *)
(* values nested in an accepted value run in the same way.  The lookups of *)
(* a call are named by the place of the hint whose filter asks (0: the     *)
(* lookup of the call itself) and by the id looked up.                     *)
(***************************************************************************)
Readers == 1..MaxReaders

\* getFromPathIndex up to its first index.get
startLookup(elemID) ==
  [idParts |-> elemID, isExactMatch |-> TRUE,
   topLevelKey |-> createTopLevelParentID(elemID),
   status |-> "awaiting", paths |-> <<>>]

\* resumeLookup with a loop that goes on until no name part is left,
\* whatever the top level key
resumeLookupPastTopLevel(lookup, index) ==
  LET key == lookup.idParts
      popped == SubSeq(key, 1, Len(key) - 1)
  IN IF key \in DOMAIN index /\ Len(index[key]) > 0
     THEN [lookup EXCEPT !.status = "returned",
                         !.paths = IF lookup.isExactMatch THEN index[key]
                                   ELSE <<index[key][1]>>]
     ELSE IF Len(popped) > 0
     THEN [lookup EXCEPT !.idParts = popped, !.isExactMatch = FALSE]
     ELSE [lookup EXCEPT !.idParts = popped, !.isExactMatch = FALSE,
                         !.status = "returned", !.paths = <<>>]

\* getFromPathIndex from the return of index.get to the next index.get, or
\* to its return
resumeLookup(lookup, index) ==
  LET key == lookup.idParts
      popped == SubSeq(key, 1, Len(key) - 1)
  IN IF key \in DOMAIN index /\ Len(index[key]) > 0
     THEN [lookup EXCEPT !.status = "returned",
                         !.paths = IF lookup.isExactMatch THEN index[key]
                                   ELSE <<index[key][1]>>]
     ELSE IF Len(popped) > 0 /\ key # lookup.topLevelKey
     THEN [lookup EXCEPT !.idParts = popped, !.isExactMatch = FALSE]
     ELSE [lookup EXCEPT !.idParts = popped, !.isExactMatch = FALSE,
                         !.status = "returned", !.paths = <<>>]

\* the id whose filter starts the filter of an id of an element
ParentID(element, id) ==
  IF /\ isObjectType(element)
     /\ Len(id) = Len(element.elemID) + 2
     /\ id[Len(element.elemID) + 1] \in {"annotation", "field"}
  THEN element.elemID
  ELSE SubSeq(id, 1, Len(id) - 1)

ChildrenIDs(element, id) ==
  {child \in ElementIDs(element) \ {element.elemID} : ParentID(element, child) = id}

IdleTask ==
  [op |-> "none", status |-> "idle", elemID |-> <<>>, element |-> <<>>,
   lookups |-> <<>>, result |-> <<>>, concurrent |-> FALSE]

NoTasks == [r \in Readers |-> IdleTask]

startGetFromPathIndex(elemID) ==
  [IdleTask EXCEPT !.op = "getFromPathIndex", !.status = "awaiting", !.elemID = elemID,
                   !.lookups = (<<0, elemID>> :> startLookup(elemID))]

startSplitElementByPath(element) ==
  [IdleTask EXCEPT !.op = "splitElementByPath", !.status = "awaiting",
                   !.elemID = element.elemID, !.element = <<element>>,
                   !.lookups = (<<0, element.elemID>> :> startLookup(element.elemID))]

\* a call goes on when the get of one of its lookups returns: the lookup
\* goes on; when it returns, the filters that were waiting for it start
\* their lookups, and the call returns when none of its lookups is awaited
resumeTask(task, k, index) ==
  LET resumed == resumeLookup(task.lookups[k], index)
      lookups1 == [task.lookups EXCEPT ![k] = resumed]
      element == task.element[1]
      pathHints == lookups1[<<0, task.elemID>>].paths
      spawned ==
        IF resumed.status # "returned" THEN {}
        ELSE IF k[1] = 0
        THEN IF Len(resumed.paths) > 1
             THEN {<<i, task.elemID>> : i \in 1..Len(resumed.paths)}
             ELSE {}
        ELSE IF \E i \in 1..Len(resumed.paths) : resumed.paths[i] = pathHints[k[1]]
        THEN {<<k[1], child>> : child \in ChildrenIDs(element, k[2])}
        ELSE {}
      lookups2 == [j \in DOMAIN lookups1 \cup spawned |->
                     IF j \in DOMAIN lookups1 THEN lookups1[j] ELSE startLookup(j[2])]
      accepted ==
        [i \in 1..Len(pathHints) |->
           {id \in ElementIDs(element) :
              /\ <<i, id>> \in DOMAIN lookups2
              /\ \E n \in 1..Len(lookups2[<<i, id>>].paths) :
                   lookups2[<<i, id>>].paths[n] = pathHints[i]}]
  IN IF task.op = "getFromPathIndex"
     THEN [task EXCEPT !.lookups = lookups1, !.status = resumed.status,
                       !.result = resumed.paths]
     ELSE IF \E j \in DOMAIN lookups2 : lookups2[j].status = "awaiting"
     THEN [task EXCEPT !.lookups = lookups2]
     ELSE [task EXCEPT !.lookups = lookups2, !.status = "returned",
                       !.result =
                         IF Len(pathHints) <= 1
                         THEN <<[element EXCEPT !.path = IF pathHints = <<>> THEN NoPath
                                                         ELSE pathHints[1]]>>
                         ELSE filteredElements(element, pathHints, accepted)]

\* a caller starts a call; concurrent records that a call was in flight
\* while another call was
start(allTasks, r, task) ==
  LET inFlight == \E o \in Readers \ {r} : allTasks[o].status = "awaiting"
  IN [o \in Readers |->
        IF o = r THEN [task EXCEPT !.concurrent = inFlight]
        ELSE IF allTasks[o].status = "awaiting"
        THEN [allTasks[o] EXCEPT !.concurrent = TRUE]
        ELSE allTasks[o]]

\* resume with isExactMatch shared by the calls, not local to a call: a
\* miss of one lookup clears it for the lookups that are awaited
resumeSharingExactMatch(allTasks, r, k, index) ==
  LET key == allTasks[r].lookups[k].idParts
      missed == ~(key \in DOMAIN index /\ Len(index[key]) > 0)
      after == [allTasks EXCEPT ![r] = resumeTask(allTasks[r], k, index)]
      cleared(lookups) ==
        [j \in DOMAIN lookups |->
           IF lookups[j].status = "awaiting"
           THEN [lookups[j] EXCEPT !.isExactMatch = FALSE] ELSE lookups[j]]
  IN IF missed
     THEN [o \in Readers |-> [after[o] EXCEPT !.lookups = cleared(after[o].lookups)]]
     ELSE after

\* the get of lookup k of the call of caller r returns: only that call
\* goes on, with its own idParts and isExactMatch
resume(allTasks, r, k, index) ==
  [allTasks EXCEPT ![r] = resumeTask(allTasks[r], k, index)]

\* the ids looked up and the unmerged elements of the workspace while calls
\* read the index at the same time
ReadIDs == {InstID, createNestedID(InstID, <<"a">>), createNestedID(InstID, <<"c">>)}

ReadFragmentLists == {<<InstA, InstB>>, <<InstNestedX, InstNestedY>>, <<InstA>>}

(***************************************************************************)
(* State: the index, the unmerged elements of the workspace and the last   *)
(* call with what it returned                                              *)
(***************************************************************************)
NoCall ==
  [op |-> "none", changedUnmergedElements |-> <<>>, unmergedElementIDs |-> NoIDs,
   failAt |-> 0, status |-> "none", calls |-> <<>>, deleted |-> {},
   elemID |-> <<>>, gets |-> <<>>, paths |-> <<>>, element |-> <<>>, elements |-> <<>>]

UpdateCall(op, changed, ids, failAt, outcome) ==
  [NoCall EXCEPT !.op = op, !.changedUnmergedElements = changed,
                 !.unmergedElementIDs = ids, !.failAt = failAt,
                 !.status = outcome.status,
                 !.calls = outcome.calls, !.deleted = outcome.deleted]

GetCall(elemID, failAt, found) ==
  [NoCall EXCEPT !.op = "getFromPathIndex", !.elemID = elemID, !.failAt = failAt,
                 !.status = found.status, !.gets = found.gets, !.paths = found.paths]

SplitCall(element, elements) ==
  [NoCall EXCEPT !.op = "splitElementByPath", !.elemID = element.elemID,
                 !.status = "done", !.element = <<element>>, !.elements = elements]

Init ==
  /\ pathIndex = EmptyIndex
  /\ unmerged = <<>>
  /\ lastCall = NoCall
  /\ tasks = NoTasks

\* the workspace is loaded with any list of unmerged elements
InitIndexed ==
  /\ pathIndex = EmptyIndex
  /\ unmerged \in FragmentLists
  /\ lastCall = NoCall
  /\ tasks = NoTasks

UpdatePathIndex ==
  \E changed \in ChangedLists, ids \in UnmergedElementIDs :
    LET outcome == updatePathIndex(pathIndex, changed, ids, 0)
    IN /\ pathIndex' = outcome.index
       /\ lastCall' = UpdateCall("updatePathIndex", changed, ids, 0, outcome)
       /\ UNCHANGED <<unmerged, tasks>>

UpdateTopLevelPathIndex ==
  \E changed \in ChangedLists, ids \in UnmergedElementIDs :
    LET outcome == updateTopLevelPathIndex(pathIndex, changed, ids, 0)
    IN /\ pathIndex' = outcome.index
       /\ lastCall' = UpdateCall("updateTopLevelPathIndex", changed, ids, 0, outcome)
       /\ UNCHANGED <<unmerged, tasks>>

\* an update during which the call number failAt of the store fails
UpdatePathIndexFails ==
  \E changed \in FailingLists, ids \in UnmergedElementIDs, failAt \in 1..MaxFailAt :
    LET outcome == updatePathIndex(pathIndex, changed, ids, failAt)
    IN /\ failAt <= Len(updatePathIndex(pathIndex, changed, ids, 0).calls)
       /\ pathIndex' = outcome.index
       /\ lastCall' = UpdateCall("updatePathIndex", changed, ids, failAt, outcome)
       /\ UNCHANGED <<unmerged, tasks>>

UpdateTopLevelPathIndexFails ==
  \E changed \in FailingLists, ids \in UnmergedElementIDs, failAt \in 1..MaxFailAt :
    LET outcome == updateTopLevelPathIndex(pathIndex, changed, ids, failAt)
    IN /\ failAt <= Len(updateTopLevelPathIndex(pathIndex, changed, ids, 0).calls)
       /\ pathIndex' = outcome.index
       /\ lastCall' = UpdateCall("updateTopLevelPathIndex", changed, ids, failAt, outcome)
       /\ UNCHANGED <<unmerged, tasks>>

\* the index is rebuilt from the unmerged elements of the workspace
IndexUnmergedElements ==
  LET outcome == updatePathIndex(pathIndex, unmerged, NoIDs, 0)
  IN /\ pathIndex' = outcome.index
     /\ lastCall' = UpdateCall("updatePathIndex", unmerged, NoIDs, 0, outcome)
     /\ UNCHANGED <<unmerged, tasks>>

GetFromPathIndex ==
  \E elemID \in LookupIDs :
    /\ lastCall' = GetCall(elemID, 0, getFromPathIndexCall(elemID, pathIndex, 0))
    /\ UNCHANGED <<pathIndex, unmerged, tasks>>

\* a lookup during which the call number failAt of the store fails
GetFromPathIndexFails ==
  \E elemID \in LookupIDs, failAt \in 1..MaxFailAt :
    LET found == getFromPathIndexCall(elemID, pathIndex, failAt)
    IN /\ failAt <= Len(getFromPathIndexCall(elemID, pathIndex, 0).gets)
       /\ lastCall' = GetCall(elemID, failAt, found)
       /\ UNCHANGED <<pathIndex, unmerged, tasks>>

\* the merged element of one id of the workspace is split
SplitElementByPath ==
  \E group \in Range(groupByID(unmerged)) :
    /\ canMerge(group)
    /\ lastCall' = SplitCall(mergeElements(group),
                             splitElementByPath(mergeElements(group), pathIndex))
    /\ UNCHANGED <<pathIndex, unmerged, tasks>>

Next ==
  \/ UpdatePathIndex
  \/ UpdateTopLevelPathIndex
  \/ GetFromPathIndex

Spec == Init /\ [][Next]_vars

NextIndexed ==
  \/ IndexUnmergedElements
  \/ GetFromPathIndex
  \/ SplitElementByPath

SpecIndexed == InitIndexed /\ [][NextIndexed]_vars

NextFailure ==
  \/ UpdatePathIndex
  \/ UpdatePathIndexFails
  \/ UpdateTopLevelPathIndexFails
  \/ GetFromPathIndexFails

SpecFailure == Init /\ [][NextFailure]_vars

\* the workspace is loaded with one of the lists of unmerged elements
InitReads ==
  /\ pathIndex = EmptyIndex
  /\ unmerged \in ReadFragmentLists
  /\ lastCall = NoCall
  /\ tasks = NoTasks

\* the index is rebuilt while no call reads it
IndexWhileNoRead ==
  /\ \A r \in Readers : tasks[r].status # "awaiting"
  /\ IndexUnmergedElements

StartGetFromPathIndex ==
  \E r \in Readers, elemID \in ReadIDs :
    /\ tasks[r].status # "awaiting"
    /\ tasks' = start(tasks, r, startGetFromPathIndex(elemID))
    /\ UNCHANGED <<pathIndex, unmerged, lastCall>>

StartSplitElementByPath ==
  \E r \in Readers, group \in Range(groupByID(unmerged)) :
    /\ tasks[r].status # "awaiting"
    /\ canMerge(group)
    /\ tasks' = start(tasks, r, startSplitElementByPath(mergeElements(group)))
    /\ UNCHANGED <<pathIndex, unmerged, lastCall>>

\* an index.get a call awaits returns
IndexGet ==
  \E r \in Readers :
    \E k \in DOMAIN tasks[r].lookups :
      /\ tasks[r].lookups[k].status = "awaiting"
      /\ tasks' = resume(tasks, r, k, pathIndex)
      /\ UNCHANGED <<pathIndex, unmerged, lastCall>>

NextReads ==
  \/ IndexWhileNoRead
  \/ StartGetFromPathIndex
  \/ StartSplitElementByPath
  \/ IndexGet

SpecReads == InitReads /\ [][NextReads]_vars

(***************************************************************************)
(* The entries of an index are serialized by account and parsed entries    *)
(* are loaded                                                              *)
(***************************************************************************)
SfID == <<"sf", "obj">>

EntryKeys == {ObjID, InstID, SfID}

EntryValues == {<<F1>>, <<F1, F2>>, <<F2, F1>>}

Entries == {RemoteMapEntry(key, value) : key \in EntryKeys, value \in EntryValues}

SerializeCall(entries, streams) ==
  [op |-> "serializePathIndexByAccount", status |-> "done", entries |-> entries,
   streams |-> streams]

LoadCall(parsedEntries, entries) ==
  [op |-> "loadPathIndex", status |-> "done", parsedEntries |-> parsedEntries,
   entries |-> entries]

\* the entries a call is given: those of an index, or those parsed from
\* its serialized list
NoSerializeCall(entries) ==
  [op |-> "none", status |-> "none", entries |-> entries,
   parsedEntries |-> MapSeq(LAMBDA e : <<e.key, e.value>>, entries)]

InitSerialize ==
  /\ pathIndex = EmptyIndex
  /\ unmerged = <<>>
  /\ lastCall \in {NoSerializeCall(entries) : entries \in ElementLists(Entries, MaxEntries)}
  /\ tasks = NoTasks

SerializePathIndexByAccount ==
  /\ lastCall.op = "none"
  /\ lastCall' = SerializeCall(lastCall.entries,
                               serializePathIndexByAccount(lastCall.entries))
  /\ UNCHANGED <<pathIndex, unmerged, tasks>>

LoadPathIndex ==
  /\ lastCall.op = "none"
  /\ lastCall' = LoadCall(lastCall.parsedEntries, loadPathIndex(lastCall.parsedEntries))
  /\ UNCHANGED <<pathIndex, unmerged, tasks>>

NextSerialize ==
  \/ SerializePathIndexByAccount
  \/ LoadPathIndex

SpecSerialize == InitSerialize /\ [][NextSerialize]_vars

(***************************************************************************)
(* A lookup in flight while an update is: the workspace was indexed, one   *)
(* caller updates the index store call by store call and another caller    *)
(* looks ids up get by get                                                 *)
(***************************************************************************)
RaceIDs == {NoIDs, IDs({InstID}), IDs({})}

Reader == 1

\* the index of a list of unmerged elements after a full rebuild
IndexOf(elements) == updatePathIndex(EmptyIndex, elements, NoIDs, 0).index

InitRace ==
  /\ unmerged \in ReadFragmentLists
  /\ pathIndex = IndexOf(unmerged)
  /\ lastCall = NoCall
  /\ tasks = NoTasks

\* updatePathIndex is called and runs up to its first store call
StartUpdatePathIndex ==
  \E changed \in ReadFragmentLists, ids \in RaceIDs :
    /\ lastCall.op = "none"
    /\ lastCall' = UpdateCall("updatePathIndex", changed, ids, 0,
                              Outcome(pathIndex, "awaiting", <<>>, {}))
    /\ UNCHANGED <<pathIndex, unmerged, tasks>>

\* the store call the update awaits returns; a lookup in flight has then
\* run while the update changed the store
StoreCallReturns ==
  LET outcome == updateIndexStep(pathIndex, lastCall)
  IN /\ lastCall.op = "updatePathIndex"
     /\ lastCall.status = "awaiting"
     /\ pathIndex' = outcome.index
     /\ lastCall' = [lastCall EXCEPT !.status = outcome.status, !.calls = outcome.calls,
                                     !.deleted = outcome.deleted]
     /\ tasks' = [r \in Readers |->
                    IF tasks[r].status = "awaiting"
                    THEN [tasks[r] EXCEPT !.concurrent = TRUE] ELSE tasks[r]]
     /\ UNCHANGED unmerged

\* getFromPathIndex is called and runs up to its first index.get
StartLookup ==
  \E elemID \in LookupIDs :
    /\ tasks[Reader].status # "awaiting"
    /\ tasks' = [tasks EXCEPT ![Reader] = startGetFromPathIndex(elemID)]
    /\ UNCHANGED <<pathIndex, unmerged, lastCall>>

\* the index.get the lookup awaits returns
LookupGet ==
  /\ tasks[Reader].status = "awaiting"
  /\ tasks' = resume(tasks, Reader, <<0, tasks[Reader].elemID>>, pathIndex)
  /\ UNCHANGED <<pathIndex, unmerged, lastCall>>

NextRace ==
  \/ StartUpdatePathIndex
  \/ StoreCallReturns
  \/ StartLookup
  \/ LookupGet

SpecRace == InitRace /\ [][NextRace]_vars

\* a get of the store returns: the lookup that awaits it goes on
SpecRaceFair == InitRace /\ [][NextRace]_vars /\ WF_vars(LookupGet)

(***************************************************************************)
(* The unmerged elements of an indexed workspace change and the index is   *)
(* updated with the elements that changed                                  *)
(***************************************************************************)
IncrementalElements == {InstA, InstB, InstNestedX, InstNestedY, OtherInst}

IncrementalLists ==
  {l \in ElementLists(IncrementalElements, MaxFragments) : Distinct(l)}

ElemIDsOf(elements) == {elements[i].elemID : i \in 1..Len(elements)}

\* the ids of the elements whose fragments are not what they were
ChangedIDs(old, new) ==
  {id \in ElemIDsOf(old) \cup ElemIDsOf(new) :
     SelectSeq(old, LAMBDA e : e.elemID = id) # SelectSeq(new, LAMBDA e : e.elemID = id)}

\* changedUnmergedElements: all the fragments the changed elements have now
ChangedUnmergedElements(old, new) ==
  SelectSeq(new, LAMBDA e : e.elemID \in ChangedIDs(old, new))

InitIncremental ==
  /\ unmerged \in IncrementalLists
  /\ pathIndex = IndexOf(unmerged)
  /\ lastCall = NoCall
  /\ tasks = NoTasks

\* the elements change and updatePathIndex is called with the fragments of
\* the changed elements and the ids of all the elements there are now
UpdateChangedElements ==
  \E new \in IncrementalLists :
    LET changed == ChangedUnmergedElements(unmerged, new)
        ids == IDs(ElemIDsOf(new))
        outcome == updatePathIndex(pathIndex, changed, ids, 0)
    IN /\ new # unmerged
       /\ unmerged' = new
       /\ pathIndex' = outcome.index
       /\ lastCall' = UpdateCall("updatePathIndex", changed, ids, 0, outcome)
       /\ UNCHANGED tasks

NextIncremental ==
  \/ UpdateChangedElements
  \/ IndexUnmergedElements

SpecIncremental == InitIncremental /\ [][NextIncremental]_vars

(***************************************************************************)
(* Elements whose fragments give hints at the same key: an instance that   *)
(* has an annotation and a value of the same name, and a type whose        *)
(* fragments declare the same annotation type                              *)
(***************************************************************************)
InstAnnoA == InstanceElement(InstID, EmptyObject, [a |-> Scalar(3)], F3)

CollidingElements == {InstAnnoA, InstA, InstB, ObjAnno, ObjAnnoA, ObjFields}

CollidingLists == {l \in ElementLists(CollidingElements, MaxFragments) : Distinct(l)}

InitColliding ==
  /\ unmerged \in CollidingLists
  /\ pathIndex = EmptyIndex
  /\ lastCall = NoCall
  /\ tasks = NoTasks

\* the top level index is rebuilt from the unmerged elements of the workspace
IndexTopLevelOfUnmergedElements ==
  LET outcome == updateTopLevelPathIndex(pathIndex, unmerged, NoIDs, 0)
  IN /\ pathIndex' = outcome.index
     /\ lastCall' = UpdateCall("updateTopLevelPathIndex", unmerged, NoIDs, 0, outcome)
     /\ UNCHANGED <<unmerged, tasks>>

NextColliding ==
  \/ IndexUnmergedElements
  \/ IndexTopLevelOfUnmergedElements
  \/ GetFromPathIndex

SpecColliding == InitColliding /\ [][NextColliding]_vars

(***************************************************************************)
(* Properties                                                              *)
(***************************************************************************)
TypeOK == lastCall.status \in {"none", "done", "failed"}

IsUpdate(call) == call.op \in {"updatePathIndex", "updateTopLevelPathIndex"}

IsCompleteUpdate(call) == IsUpdate(call) /\ call.status = "done"

\* the hints the update of a call computes from its changed elements
HintsOfCall(call) ==
  callHintsFunction(IF call.op = "updatePathIndex" THEN "getElementsPathHints"
                    ELSE "getTopLevelPathHints",
                    call.changedUnmergedElements)

HintKeysOfCall(call) == {hint.key : hint \in Range(HintsOfCall(call))}

SameArguments(call1, call2) ==
  /\ call1.op = call2.op
  /\ call1.changedUnmergedElements = call2.changedUnmergedElements
  /\ call1.unmergedElementIDs = call2.unmergedElementIDs

\* C1: an update that completes right after a completed update of the same
\* variant with the same changed elements and the same ids leaves the index
\* as the first update left it
C1_Idempotence ==
  [][(IsCompleteUpdate(lastCall) /\ IsCompleteUpdate(lastCall')
      /\ SameArguments(lastCall, lastCall'))
     => pathIndex' = pathIndex]_vars

\* an incremental update has removed stale entries and written hints, and
\* running it once more yields the same index
C1_Witness ==
  /\ IsCompleteUpdate(lastCall)
  /\ lastCall.unmergedElementIDs.defined
  /\ lastCall.deleted # {}
  /\ Len(lastCall.changedUnmergedElements) = 2
  /\ updateIndex(pathIndex, lastCall.changedUnmergedElements,
                 lastCall.unmergedElementIDs,
                 IF lastCall.op = "updatePathIndex" THEN "getElementsPathHints"
                 ELSE "getTopLevelPathHints", 0).index = pathIndex

\* C2 (as claimed): after a completed update with ids, the top level parent
\* of every key of the index is among the ids
C2_Original ==
  (IsCompleteUpdate(lastCall) /\ lastCall.unmergedElementIDs.defined)
  => \A key \in DOMAIN pathIndex :
       createTopLevelParentID(key) \in lastCall.unmergedElementIDs.ids

\* C2 (amended): after a completed update with ids, every key of the index
\* has its top level parent among the ids or is the key of a hint the update
\* wrote
C2_Pruning ==
  (IsCompleteUpdate(lastCall) /\ lastCall.unmergedElementIDs.defined)
  => \A key \in DOMAIN pathIndex :
       \/ createTopLevelParentID(key) \in lastCall.unmergedElementIDs.ids
       \/ key \in HintKeysOfCall(lastCall)

\* an update with ids has deleted stale keys and left keys of live elements
C2_Witness ==
  /\ IsCompleteUpdate(lastCall)
  /\ lastCall.unmergedElementIDs.defined
  /\ lastCall.deleted # {}
  /\ \E key \in DOMAIN pathIndex :
       /\ Len(key) > Len(createTopLevelParentID(key))
       /\ key \notin HintKeysOfCall(lastCall)

IsCompleteLookup(call) == call.op = "getFromPathIndex" /\ call.status = "done"

\* the ids above an id, down to the id of its top level parent
Ancestors(elemID) ==
  {SubSeq(elemID, 1, n) : n \in Len(createTopLevelParentID(elemID))..(Len(elemID) - 1)}

\* the nearest of the ancestors of an id that have an entry in the index
NearestAncestor(elemID, index) ==
  CHOOSE ancestor \in Ancestors(elemID) \cap DOMAIN index :
    \A other \in Ancestors(elemID) \cap DOMAIN index : Len(other) <= Len(ancestor)

\* C5: a lookup of an id that has no entry while one of its ancestors has
\* one returns exactly one path, the first path of the nearest such ancestor
C5_AncestorSingleton ==
  (/\ IsCompleteLookup(lastCall)
   /\ lastCall.elemID \notin DOMAIN pathIndex
   /\ Ancestors(lastCall.elemID) \cap DOMAIN pathIndex # {})
  => /\ Len(lastCall.paths) = 1
     /\ lastCall.paths[1] = pathIndex[NearestAncestor(lastCall.elemID, pathIndex)][1]

\* a lookup went up to an ancestor that lists two paths
C5_Witness ==
  /\ IsCompleteLookup(lastCall)
  /\ lastCall.elemID \notin DOMAIN pathIndex
  /\ Ancestors(lastCall.elemID) \cap DOMAIN pathIndex # {}
  /\ Len(pathIndex[NearestAncestor(lastCall.elemID, pathIndex)]) = 2
  /\ Len(lastCall.gets) > 1

\* C6: a lookup of an id that has an entry returns the paths of the entry,
\* all of them and in their order, and looks up no other key
C6_ExactMatch ==
  (IsCompleteLookup(lastCall) /\ lastCall.elemID \in DOMAIN pathIndex)
  => /\ lastCall.paths = pathIndex[lastCall.elemID]
     /\ lastCall.gets = <<lastCall.elemID>>

\* a lookup found an entry of two paths under the id itself, while an
\* ancestor of the id has an entry too
C6_Witness ==
  /\ IsCompleteLookup(lastCall)
  /\ lastCall.elemID \in DOMAIN pathIndex
  /\ Len(pathIndex[lastCall.elemID]) = 2
  /\ Ancestors(lastCall.elemID) \cap DOMAIN pathIndex # {}

\* C7: after a completed update without ids the index holds the hints of the
\* changed elements and nothing else: its keys are the keys of the hints,
\* each with the paths of a hint of that key, and it is empty when there is
\* no changed element
C7_FullRebuild ==
  (IsCompleteUpdate(lastCall) /\ ~lastCall.unmergedElementIDs.defined)
  => /\ DOMAIN pathIndex = HintKeysOfCall(lastCall)
     /\ \A key \in DOMAIN pathIndex :
          \E hint \in Range(HintsOfCall(lastCall)) :
            hint.key = key /\ hint.value = pathIndex[key]
     /\ lastCall.changedUnmergedElements = <<>> => pathIndex = EmptyIndex

\* an update without ids has rebuilt the index from the fragments of one
\* element
C7_Witness ==
  /\ IsCompleteUpdate(lastCall)
  /\ ~lastCall.unmergedElementIDs.defined
  /\ Len(lastCall.changedUnmergedElements) = 2
  /\ Cardinality(DOMAIN pathIndex) = 3

\* C8: a completed update with ids deletes the keys whose top level parent
\* is not among the ids, and those only; a key of a live element that is not
\* the key of a new hint keeps its paths, a stale key that is not the key of
\* a new hint is gone, and without changed elements the index is the former
\* index less the stale keys
C8_IncrementalFrame ==
  [][(IsCompleteUpdate(lastCall') /\ lastCall'.unmergedElementIDs.defined)
     => LET ids == lastCall'.unmergedElementIDs.ids
            stale == {key \in DOMAIN pathIndex : createTopLevelParentID(key) \notin ids}
            live == DOMAIN pathIndex \ stale
        IN /\ lastCall'.deleted = stale
           /\ \A key \in live \ HintKeysOfCall(lastCall') :
                key \in DOMAIN pathIndex' /\ pathIndex'[key] = pathIndex[key]
           /\ \A key \in stale \ HintKeysOfCall(lastCall') : key \notin DOMAIN pathIndex'
           /\ lastCall'.changedUnmergedElements = <<>>
              => pathIndex' = [key \in live |-> pathIndex[key]]]_vars

\* an update with ids has deleted stale keys, kept a nested key of a live
\* element and written new hints
C8_Witness ==
  /\ IsCompleteUpdate(lastCall)
  /\ lastCall.unmergedElementIDs.defined
  /\ lastCall.deleted # {}
  /\ HintKeysOfCall(lastCall) # {}
  /\ \E key \in DOMAIN pathIndex \ HintKeysOfCall(lastCall) :
       /\ createTopLevelParentID(key) \in lastCall.unmergedElementIDs.ids
       /\ key # createTopLevelParentID(key)

\* C10: every key of the index has at least one path
C10_NonEmptyPathLists ==
  \A key \in DOMAIN pathIndex : Len(pathIndex[key]) > 0

\* an update with ids whose only changed element has no path has left
\* entries in the index
C10_Witness ==
  /\ IsCompleteUpdate(lastCall)
  /\ lastCall.unmergedElementIDs.defined
  /\ lastCall.changedUnmergedElements = <<InstNoPath>>
  /\ pathIndex # EmptyIndex

\* the index holds the hints of the unmerged elements of the workspace
Indexed == pathIndex = updatePathIndex(EmptyIndex, unmerged, NoIDs, 0).index

\* the fragments of an element: the unmerged elements of its id
FragmentsOf(elemID) == SelectSeq(unmerged, LAMBDA e : e.elemID = elemID)

\* C4: once the unmerged elements are indexed, the lookup of an id returns
\* at least one path when a fragment with a path contributed to the top
\* level element of the id
C4_CatchAllCoverage ==
  (/\ IsCompleteLookup(lastCall)
   /\ Indexed
   /\ \E i \in 1..Len(unmerged) :
        /\ unmerged[i].elemID = createTopLevelParentID(lastCall.elemID)
        /\ unmerged[i].path # NoPath)
  => lastCall.paths # <<>>

\* a nested id was looked up whose fragments differ in shape, so that the
\* index has no entry for it
C4_Witness ==
  /\ IsCompleteLookup(lastCall)
  /\ Indexed
  /\ InstA \in Range(unmerged)
  /\ InstNestedY \in Range(unmerged)
  /\ lastCall.elemID = createNestedID(InstID, <<"a">>)
  /\ lastCall.elemID \notin DOMAIN pathIndex
  /\ lastCall.paths # <<>>

\* the content of an element: its annotation types, its fields and the leaf
\* values of its annotations, of the annotations of its fields and of its
\* value, each with the place it has in the element
Item(part, id, value) == [part |-> part, id |-> id, value |-> value]

RECURSIVE ValueLeaves(_, _, _)
ValueLeaves(part, id, value) ==
  IF value = Undefined THEN {}
  ELSE IF value.t = "map"
  THEN UNION {ValueLeaves(part, Append(id, k), value.v[k]) : k \in DOMAIN value.v}
  ELSE IF value.t = "list"
  THEN UNION {ValueLeaves(part, Append(id, ToString(i - 1)), value.v[i]) :
                i \in 1..Len(value.v)}
  ELSE {Item(part, id, value)}

ElementContent(element) ==
  {Item("annotationType", <<k>>, Scalar(0)) : k \in DOMAIN element.annotationRefTypes}
  \cup ValueLeaves("annotation", <<>>, Map(element.annotations))
  \cup ValueLeaves("value", <<>>, Map(element.value))
  \cup {Item("field", <<n>>, Scalar(0)) : n \in DOMAIN element.fields}
  \cup UNION {ValueLeaves("fieldAnnotation", <<n>>, Map(element.fields[n].annotations)) :
                n \in DOMAIN element.fields}

ContentOfAll(elements) == UNION {ElementContent(elements[i]) : i \in 1..Len(elements)}

DistinctPaths(fragments) ==
  /\ \A i \in 1..Len(fragments) : fragments[i].path # NoPath
  /\ \A i, j \in 1..Len(fragments) : i # j => fragments[i].path # fragments[j].path

\* the split of the merged element of fragments at distinct paths, after the
\* fragments were indexed
IsSplitOfIndexed(call) ==
  /\ call.op = "splitElementByPath"
  /\ Indexed
  /\ DistinctPaths(FragmentsOf(call.elemID))

\* C3: the split of an element merged from fragments at distinct paths,
\* after the fragments were indexed, returns copies that together hold the
\* whole content of the merged element, and the paths of the copies are the
\* paths of the fragments that contributed content the copies hold
C3_SplitRoundTrip ==
  IsSplitOfIndexed(lastCall)
  => /\ ElementContent(lastCall.element[1]) \subseteq ContentOfAll(lastCall.elements)
     /\ {lastCall.elements[i].path : i \in 1..Len(lastCall.elements)}
        = {fragment.path : fragment \in
             {f \in Range(FragmentsOf(lastCall.elemID)) :
                ElementContent(f) \cap ContentOfAll(lastCall.elements) # {}}}

\* C9: when a call of the store fails during an update or a lookup, the
\* operation fails, the failed call is the last call it issues and no call is
\* issued twice; the index keeps what the completed calls did (it is empty
\* when setAll fails after clear, it has lost the stale keys when setAll
\* fails after deleteAll) and is unchanged otherwise, as when the enumeration
\* of the keys fails
C9_StoreFailureAborts ==
  [][lastCall'.failAt > 0
     => /\ lastCall'.status = "failed"
        /\ IsUpdate(lastCall')
           => LET calls == lastCall'.calls
                  stale == {key \in DOMAIN pathIndex :
                              createTopLevelParentID(key)
                                \notin lastCall'.unmergedElementIDs.ids}
              IN /\ Len(calls) = lastCall'.failAt
                 /\ calls \in {<<"clear">>, <<"clear", "setAll">>, <<"keys">>,
                              <<"keys", "deleteAll">>,
                              <<"keys", "deleteAll", "setAll">>}
                 /\ pathIndex' =
                      IF calls = <<"clear", "setAll">> THEN EmptyIndex
                      ELSE IF calls = <<"keys", "deleteAll", "setAll">>
                      THEN [key \in DOMAIN pathIndex \ stale |-> pathIndex[key]]
                      ELSE pathIndex
        /\ lastCall'.op = "getFromPathIndex"
           => /\ Len(lastCall'.gets) = lastCall'.failAt
              /\ \A i, j \in 1..Len(lastCall'.gets) :
                   i # j => lastCall'.gets[i] # lastCall'.gets[j]
              /\ lastCall'.paths = <<>>
              /\ pathIndex' = pathIndex]_vars

\* setAll failed after deleteAll had removed stale keys: the index has lost
\* them and keeps the other keys
C9_Witness ==
  /\ IsUpdate(lastCall)
  /\ lastCall.status = "failed"
  /\ lastCall.calls = <<"keys", "deleteAll", "setAll">>
  /\ lastCall.deleted # {}
  /\ lastCall.changedUnmergedElements # <<>>
  /\ pathIndex # EmptyIndex

IsSplit(call) == call.op = "splitElementByPath" /\ call.status = "done"

\* an element less its path
Untagged(element) == [element EXCEPT !.path = NoPath]

\* C11: when the lookup of the id of an element returns no path or one
\* path, the split returns one element, with the content of the element it
\* was given and with that one path, or without a path when the lookup
\* returned none; the call completes and the element it was given is the
\* merged element still
C11_NoSplit ==
  (lastCall.op = "splitElementByPath"
   /\ Len(getFromPathIndex(lastCall.elemID, pathIndex)) <= 1)
  => LET pathHints == getFromPathIndex(lastCall.elemID, pathIndex)
     IN /\ lastCall.status = "done"
        /\ Len(lastCall.elements) = 1
        /\ Untagged(lastCall.elements[1]) = Untagged(lastCall.element[1])
        /\ lastCall.elements[1].path =
             (IF pathHints = <<>> THEN NoPath ELSE pathHints[1])
        /\ lastCall.element[1].path = NoPath

\* the element of the single fragment {a: 1} at f1 was indexed and split:
\* one element comes back, tagged f1
C11_Witness ==
  /\ IsSplit(lastCall)
  /\ Indexed
  /\ unmerged = <<InstA>>
  /\ pathIndex = [key \in {InstID} |-> <<F1>>]
  /\ lastCall.elements = <<InstA>>

\* the id of an item of the content of an element
ItemID(element, item) ==
  IF item.part = "annotationType"
  THEN createNestedID(element.elemID, <<"annotation">> \o item.id)
  ELSE IF item.part = "annotation"
  THEN createNestedID(IF isInstanceElement(element) THEN element.elemID
                      ELSE createNestedID(element.elemID, <<"attr">>), item.id)
  ELSE IF item.part = "value"
  THEN createNestedID(element.elemID, item.id)
  ELSE createNestedID(element.elemID, <<"field">> \o item.id)

\* the lookup of an id returns a path
ResolvesTo(elemID, path) == path \in Range(getFromPathIndex(elemID, pathIndex))

\* the lookup of the id of an item, and of every id between it and the
\* element, returns a path
RetainedFor(element, item, path) ==
  \A n \in Len(element.elemID)..Len(ItemID(element, item)) :
    ResolvesTo(SubSeq(ItemID(element, item), 1, n), path)

\* the place of the first occurrence of a path in a list of paths
FirstIndex(paths, path) ==
  CHOOSE i \in 1..Len(paths) : paths[i] = path /\ \A j \in 1..(i - 1) : paths[j] # path

\* the copies are tagged with resolved paths, each holds only content whose
\* own lookup returns its path, none is empty and a resolved path is without
\* a copy only when nothing of the element is retained for it
SplitCopiesFiltered(call, pathHints) ==
  /\ \A i \in 1..Len(call.elements) :
       /\ call.elements[i].path \in Range(pathHints)
       /\ ~isEmptyElement(call.elements[i])
       /\ ElementContent(call.elements[i]) \subseteq ElementContent(call.element[1])
       /\ \A item \in ElementContent(call.elements[i]) :
            ResolvesTo(ItemID(call.elements[i], item), call.elements[i].path)
  /\ \A path \in Range(pathHints) :
       (\A i \in 1..Len(call.elements) : call.elements[i].path # path)
       => \A item \in ElementContent(call.element[1]) :
            ~RetainedFor(call.element[1], item, path)

\* the copies follow the order of the resolved paths
SplitCopiesOrdered(call, pathHints) ==
  \A i, j \in 1..Len(call.elements) :
    (i < j /\ call.elements[i].path \in Range(pathHints)
           /\ call.elements[j].path \in Range(pathHints))
    => FirstIndex(pathHints, call.elements[i].path)
         <= FirstIndex(pathHints, call.elements[j].path)

\* no two copies have the same path
SplitCopiesDistinct(call) ==
  \A i, j \in 1..Len(call.elements) :
    i # j => call.elements[i].path # call.elements[j].path

\* C12: when the lookup of the id of an element returns more than one path,
\* the split returns one copy for each distinct resolved path, tagged with
\* the path and holding only the content whose own lookup returns the path,
\* less the copies left empty; no two copies have the same path and the
\* copies are in the order of the resolved paths
C12_SplitShape ==
  (IsSplit(lastCall) /\ Len(getFromPathIndex(lastCall.elemID, pathIndex)) > 1)
  => LET pathHints == getFromPathIndex(lastCall.elemID, pathIndex)
     IN /\ SplitCopiesFiltered(lastCall, pathHints)
        /\ SplitCopiesOrdered(lastCall, pathHints)
        /\ SplitCopiesDistinct(lastCall)

\* the fragments of an element that have a path
FragmentsWithPath(elemID) == SelectSeq(FragmentsOf(elemID), LAMBDA e : e.path # NoPath)

\* the hints of a list whose key is below an id
HintsBelow(hints, elemID) ==
  SelectSeq(hints, LAMBDA hint : /\ Len(hint.key) > Len(elemID)
                                 /\ SubSeq(hint.key, 1, Len(elemID)) = elemID)

\* the keys of the values of fragments in the order they are first seen:
\* by the first fragment that has the key, then by the order of the keys
\* within that fragment
FirstFragmentWith(fragments, key) ==
  CHOOSE i \in 1..Len(fragments) :
    /\ key \in DOMAIN fragments[i].value
    /\ \A j \in 1..(i - 1) : key \notin DOMAIN fragments[j].value

KeyPlace(key) == CHOOSE i \in 1..Len(KeyOrder) : KeyOrder[i] = key

SeenBefore(fragments, k1, k2) ==
  \/ FirstFragmentWith(fragments, k1) < FirstFragmentWith(fragments, k2)
  \/ /\ FirstFragmentWith(fragments, k1) = FirstFragmentWith(fragments, k2)
     /\ KeyPlace(k1) < KeyPlace(k2)

FirstSeenKeys(fragments) ==
  LET keys == UNION {DOMAIN fragments[i].value : i \in 1..Len(fragments)}
  IN CHOOSE seq \in [1..Cardinality(keys) -> keys] :
       \A i, j \in 1..Cardinality(keys) : i < j => SeenBefore(fragments, seq[i], seq[j])

\* the fragments of the value under a key: of the fragments that define it
FragmentsDefining(fragments, key) ==
  LET places == {i \in 1..Len(fragments) :
                   key \in DOMAIN fragments[i].value /\ fragments[i].value[key] # Undefined}
      nth(n) == CHOOSE i \in places : Cardinality({j \in places : j < i}) = n - 1
  IN [n \in 1..Cardinality(places) |->
        Fragment(fragments[nth(n)].value[key], fragments[nth(n)].path)]

\* the index of the fragments {a: 1} at f1 and {b: 2} at f2 of the instance
ScenarioIndex ==
  [key \in {createNestedID(InstID, <<"a">>), createNestedID(InstID, <<"b">>), InstID} |->
     IF key = createNestedID(InstID, <<"a">>) THEN <<F1>>
     ELSE IF key = createNestedID(InstID, <<"b">>) THEN <<F2>>
     ELSE <<F1, F2>>]

\* C13: the hints computed from two or more fragments of an instance (their
\* values are mappings) are, below the id of the instance, the hints of each
\* key of the fragments, in the order the keys are first seen, computed
\* from the fragments that define the key only and under the id extended by
\* the key; the fragments {a: 1} at f1 and {b: 2} at f2 index to exactly
\* inst.a -> [f1], inst.b -> [f2] and inst -> [f1, f2], and the lookups of
\* inst.a and of the unknown inst.c then return [f1]
C13_MappingPerKey ==
  /\ (IsCompleteUpdate(lastCall) /\ lastCall.changedUnmergedElements = unmerged)
     => \A elemID \in {InstID, OtherID} :
          Len(FragmentsWithPath(elemID)) >= 2
          => LET fragments == FragmentsWithPath(elemID)
                 keys == FirstSeenKeys(fragments)
             IN HintsBelow(HintsOfCall(lastCall), elemID)
                = Concat([i \in 1..Len(keys) |->
                            getValuePathHints(FragmentsDefining(fragments, keys[i]),
                                              createNestedID(elemID, <<keys[i]>>))])
  /\ (unmerged = <<InstA, InstB>> /\ pathIndex # EmptyIndex)
     => /\ pathIndex = ScenarioIndex
        /\ (IsCompleteLookup(lastCall)
            /\ lastCall.elemID \in {createNestedID(InstID, <<"a">>),
                                    createNestedID(InstID, <<"c">>)})
           => lastCall.paths = <<F1>>

\* the fragments {a: 1} at f1 and {b: 2} at f2 were indexed and the unknown
\* inst.c was looked up
C13_Witness ==
  /\ unmerged = <<InstA, InstB>>
  /\ pathIndex = ScenarioIndex
  /\ IsCompleteLookup(lastCall)
  /\ lastCall.elemID = createNestedID(InstID, <<"c">>)
  /\ lastCall.paths = <<F1>>

\* the hints of a list that have a key
HintsAt(hints, key) == SelectSeq(hints, LAMBDA hint : hint.key = key)

\* the hints of a list whose key is an id or is below it
HintsUnder(hints, elemID) == HintsAt(hints, elemID) \o HintsBelow(hints, elemID)

\* the hints of a list whose key is an id of an element: the id of the
\* element or an id nested in it
HintsOfElement(hints, elemID) ==
  SelectSeq(hints, LAMBDA hint : createTopLevelParentID(hint.key) = elemID)

\* the names below a value the hints are looked at
NestedNames ==
  {<<k>> : k \in Range(KeyOrder)} \cup {<<k1, k2>> : k1, k2 \in Range(KeyOrder)}

\* the fragments that contribute to the value at names below the values of
\* fragments: those that define every name on the way
RECURSIVE Contributors(_, _)
Contributors(fragments, names) ==
  IF names = <<>> THEN fragments
  ELSE LET defining ==
             SelectSeq(fragments,
                       LAMBDA f : /\ isPlainObject(f.value)
                                  /\ Head(names) \in DOMAIN f.value.v
                                  /\ f.value.v[Head(names)] # Undefined)
       IN Contributors([i \in 1..Len(defining) |->
                          Fragment(defining[i].value.v[Head(names)], defining[i].path)],
                       Tail(names))

\* the computation of the hints reaches the value at names: at every level
\* above it two or more fragments contribute and they are all mappings
Reached(fragments, names) ==
  \A n \in 0..(Len(names) - 1) :
    LET above == Contributors(fragments, SubSeq(names, 1, n))
    IN Len(above) >= 2 /\ \A i \in 1..Len(above) : isPlainObject(above[i].value)

\* the values the hints of the fragments of an element are computed from,
\* each with the id its hints are keyed at
ValueRoots(elemID) ==
  LET fragments == FragmentsWithPath(elemID)
      fieldNames == UNION {DOMAIN fragments[i].fields : i \in 1..Len(fragments)}
      withField(n) == SelectSeq(fragments, LAMBDA e : n \in DOMAIN e.fields)
  IN IF \A i \in 1..Len(fragments) : isInstanceElement(fragments[i])
     THEN {[id |-> elemID,
            fragments |-> MapSeq(LAMBDA e : Fragment(Map(e.value), e.path), fragments)]}
     ELSE {[id |-> createNestedID(elemID, <<"attr">>),
            fragments |-> MapSeq(LAMBDA e : Fragment(Map(e.annotations), e.path), fragments)]}
          \cup {[id |-> createNestedID(elemID, <<"field", n>>),
                 fragments |-> MapSeq(LAMBDA e : Fragment(Map(e.fields[n].annotations), e.path),
                                      withField(n))] :
                 n \in {m \in fieldNames : Len(withField(m)) >= 2}}

\* C14: the hints computed for an element that has one fragment (with a
\* path) are one hint, at the id of the element, listing the path of the
\* fragment, and none below it; in an element of several fragments, an id
\* the computation reaches with one contributing fragment has exactly one
\* hint, listing the path of that fragment, and no hint is below it
C14_SingleFragmentPassthrough ==
  (IsCompleteUpdate(lastCall) /\ lastCall.changedUnmergedElements = unmerged)
  => \A elemID \in {InstID, OtherID, ObjID} :
       LET hints == HintsOfCall(lastCall)
           fragments == FragmentsWithPath(elemID)
       IN /\ Len(fragments) = 1
             => HintsOfElement(hints, elemID) = <<PathHint(elemID, <<fragments[1].path>>)>>
          /\ Len(fragments) >= 2
             => \A root \in ValueRoots(elemID), names \in NestedNames :
                  (/\ Reached(root.fragments, names)
                   /\ Len(Contributors(root.fragments, names)) = 1)
                  => HintsUnder(hints, createNestedID(root.id, names))
                     = <<PathHint(createNestedID(root.id, names),
                                  <<Contributors(root.fragments, names)[1].path>>)>>

\* the element of a single fragment was indexed along with an element of
\* several fragments in which a nested id below a mapping of two fragments
\* has one contributing fragment
C14_Witness ==
  /\ IsCompleteUpdate(lastCall)
  /\ unmerged = <<InstNestedX, InstNestedY, OtherInst>>
  /\ pathIndex[OtherID] = <<F3>>
  /\ pathIndex[createNestedID(InstID, <<"a", "y">>)] = <<F2>>
  /\ Cardinality(DOMAIN pathIndex) = 4

\* two or more fragments contribute to the value at names and they are not
\* all mappings
Ambiguous(fragments, names) ==
  LET contributors == Contributors(fragments, names)
  IN /\ Len(contributors) >= 2
     /\ \E i \in 1..Len(contributors) : ~isPlainObject(contributors[i].value)

\* the names that differ from names by their last name only
Siblings(names) ==
  {sibling \in NestedNames :
     /\ Len(sibling) = Len(names)
     /\ SubSeq(sibling, 1, Len(names) - 1) = SubSeq(names, 1, Len(names) - 1)
     /\ sibling # names}

\* C15: when the computation of the hints reaches a nested id to which two
\* or more fragments contribute values that are not all mappings, the
\* update completes, there is no hint at the id nor below it, and the hints
\* at and below every sibling id are the hints of the fragments that
\* contribute to the sibling; a lookup of the ambiguous id, once the
\* elements are indexed, returns the first path of the nearest ancestor
\* that has an entry
C15_AmbiguousProvenance ==
  /\ (IsUpdate(lastCall) /\ lastCall.changedUnmergedElements = unmerged)
     => \A root \in ValueRoots(InstID) \cup ValueRoots(ObjID), names \in NestedNames :
          (/\ Len(FragmentsWithPath(createTopLevelParentID(root.id))) >= 2
           /\ Reached(root.fragments, names)
           /\ Ambiguous(root.fragments, names))
          => /\ lastCall.status = "done"
             /\ HintsUnder(HintsOfCall(lastCall), createNestedID(root.id, names)) = <<>>
             /\ \A sibling \in Siblings(names) :
                  HintsUnder(HintsOfCall(lastCall), createNestedID(root.id, sibling))
                  = IF Contributors(root.fragments, sibling) = <<>> THEN <<>>
                    ELSE getValuePathHints(Contributors(root.fragments, sibling),
                                           createNestedID(root.id, sibling))
  /\ (IsCompleteLookup(lastCall) /\ Indexed)
     => \A root \in ValueRoots(InstID) \cup ValueRoots(ObjID), names \in NestedNames :
          (/\ lastCall.elemID = createNestedID(root.id, names)
           /\ Len(FragmentsWithPath(createTopLevelParentID(root.id))) >= 2
           /\ Reached(root.fragments, names)
           /\ Ambiguous(root.fragments, names))
          => /\ lastCall.elemID \notin DOMAIN pathIndex
             /\ lastCall.paths
                = <<pathIndex[NearestAncestor(lastCall.elemID, pathIndex)][1]>>

\* a list that is in two fragments was indexed, a sibling of it has its
\* hint, and the lookup of the list went up to the element
C15_Witness ==
  /\ unmerged = <<InstList, InstListA, InstB>>
  /\ Indexed
  /\ pathIndex[createNestedID(InstID, <<"b">>)] = <<F2>>
  /\ IsCompleteLookup(lastCall)
  /\ lastCall.elemID = createNestedID(InstID, <<"l">>)
  /\ lastCall.paths = <<F3>>

\* the fragments of an element that have a field, in their order
FragmentsWithField(elemID, name) ==
  SelectSeq(FragmentsWithPath(elemID), LAMBDA e : name \in DOMAIN e.fields)

\* the fragments of an element that have fields
FragmentsWithFields(elemID) ==
  SelectSeq(FragmentsWithPath(elemID), LAMBDA e : e.fields # EmptyObject)

FieldNames(elemID) ==
  UNION {DOMAIN FragmentsWithPath(elemID)[i].fields :
           i \in 1..Len(FragmentsWithPath(elemID))}

\* the hints of a field of an element: one hint at the id of the field when
\* one fragment has the field, else the hints of the annotations of the
\* field then the hint at the id of the field listing the paths of the
\* fragments that have it, in their order
FieldHintsAsClaimed(hints, elemID, name) ==
  LET fieldID == createNestedID(elemID, <<"field", name>>)
      fragments == FragmentsWithField(elemID, name)
  IN IF Len(fragments) = 1
     THEN HintsUnder(hints, fieldID) = <<PathHint(fieldID, <<fragments[1].path>>)>>
     ELSE HintsBelow(hints, fieldID) \o HintsAt(hints, fieldID)
          = getValuePathHints(
              MapSeq(LAMBDA e : Fragment(Map(e.fields[name].annotations), e.path), fragments),
              fieldID)
            \o <<PathHint(fieldID, MapSeq(LAMBDA e : e.path, fragments))>>

\* the hints of an update that indexed two or more fragments of the type
IsUpdateOfTypeFragments(call) ==
  /\ IsCompleteUpdate(call)
  /\ call.op = "updatePathIndex"
  /\ call.changedUnmergedElements = unmerged
  /\ Len(FragmentsWithPath(ObjID)) >= 2

\* C16 (as claimed): the hints of two or more fragments of a type have, for
\* every field of the fragments, one hint at the id of the field when one
\* fragment has the field, and the hints of the annotations of the field
\* with a hint at the id of the field listing the paths of its fragments
\* when several have it
C16_Original ==
  IsUpdateOfTypeFragments(lastCall)
  => \A name \in FieldNames(ObjID) :
       FieldHintsAsClaimed(HintsOfCall(lastCall), ObjID, name)

\* C16 (amended): as claimed when two or more of the fragments have fields;
\* when one fragment only has fields, the hints have one hint at id.field,
\* listing the path of that fragment, and no hint at the id of a field nor
\* below it
C16_FieldHints ==
  IsUpdateOfTypeFragments(lastCall)
  => IF Len(FragmentsWithFields(ObjID)) = 1
     THEN HintsUnder(HintsOfCall(lastCall), createNestedID(ObjID, <<"field">>))
          = <<PathHint(createNestedID(ObjID, <<"field">>),
                       <<FragmentsWithFields(ObjID)[1].path>>)>>
     ELSE /\ \A name \in FieldNames(ObjID) :
               FieldHintsAsClaimed(HintsOfCall(lastCall), ObjID, name)
          /\ HintsAt(HintsOfCall(lastCall), createNestedID(ObjID, <<"field">>)) = <<>>

\* two fragments of the type were indexed, with a field in both of them and
\* a field in one of them
C16_Witness ==
  /\ IsUpdateOfTypeFragments(lastCall)
  /\ unmerged = <<ObjFields, ObjMixed>>
  /\ pathIndex[createNestedID(ObjID, <<"field", "f">>)] = <<F2, F3>>
  /\ pathIndex[createNestedID(ObjID, <<"field", "f", "x">>)] = <<F2>>
  /\ pathIndex[createNestedID(ObjID, <<"field", "g">>)] = <<F3>>

\* the fragments of an element that declare annotation types
FragmentsWithAnnoTypes(elemID) ==
  SelectSeq(FragmentsWithPath(elemID), LAMBDA e : e.annotationRefTypes # EmptyObject)

\* the fragments of an element that declare the type of an annotation
FragmentsDeclaring(elemID, annoKey) ==
  SelectSeq(FragmentsWithPath(elemID), LAMBDA e : annoKey \in DOMAIN e.annotationRefTypes)

WithPathOf(elements, elemID) ==
  SelectSeq(elements, LAMBDA e : e.elemID = elemID /\ e.path # NoPath)

\* C18: the hints of updateTopLevelPathIndex have, for every id of an
\* element that has a path among the changed elements, exactly one hint, at
\* that id, listing the paths of the elements of the id that have a path in
\* the order of the input, and they have no hint at a nested id; in the
\* hints of both updates no hint lists the path of an element without a
\* path, the hints at every key are those of the changed elements that
\* have a path, and an id of which no element has a path has no hint
C18_TopLevelOnlyHints ==
  IsCompleteUpdate(lastCall)
  => LET hints == HintsOfCall(lastCall)
         changed == lastCall.changedUnmergedElements
     IN /\ lastCall.op = "updateTopLevelPathIndex"
           => /\ \A elemID \in {InstID, OtherID, ObjID} :
                   WithPathOf(changed, elemID) # <<>>
                   => HintsAt(hints, elemID)
                      = <<PathHint(elemID, MapSeq(LAMBDA e : e.path,
                                                  WithPathOf(changed, elemID)))>>
              /\ \A hint \in Range(hints) :
                   hint.key \in {changed[i].elemID : i \in 1..Len(changed)}
        /\ \A hint \in Range(hints) :
             /\ hint.value # <<>>
             /\ \A i \in 1..Len(hint.value) : hint.value[i] # NoPath
        /\ LET withPath == HintsOfCall([lastCall EXCEPT !.changedUnmergedElements =
                                           SelectSeq(changed, LAMBDA e : e.path # NoPath)])
           IN \A key \in HintKeysOfCall(lastCall) \cup {hint.key : hint \in Range(withPath)} :
                HintsAt(hints, key) = HintsAt(withPath, key)
        /\ \A elemID \in {InstID, OtherID, ObjID} :
             WithPathOf(changed, elemID) = <<>> => HintsOfElement(hints, elemID) = <<>>
        /\ \A elemID \in {InstID, OtherID, ObjID} :
             Len(WithPathOf(changed, elemID)) = 1
             => HintsOfElement(hints, elemID)
                = <<PathHint(elemID, <<WithPathOf(changed, elemID)[1].path>>)>>

\* updateTopLevelPathIndex was called with an element without a path and
\* an element of the same id with a path
C18_Witness ==
  /\ IsCompleteUpdate(lastCall)
  /\ lastCall.op = "updateTopLevelPathIndex"
  /\ lastCall.changedUnmergedElements = <<InstNoPath, InstA>>
  /\ ~lastCall.unmergedElementIDs.defined
  /\ pathIndex = [key \in {InstID} |-> <<F1>>]

\* C19: the hints computed from the unmerged elements have, for every
\* element of two or more fragments with a path, the hint at the id of the
\* element that lists the paths of those fragments in the order of the
\* input, and once the hints are written the index holds that list under
\* the id of the element
C19_CatchAllPresentAndOrdered ==
  (IsCompleteUpdate(lastCall) /\ lastCall.changedUnmergedElements = unmerged)
  => \A elemID \in {InstID, OtherID, ObjID} :
       Len(FragmentsWithPath(elemID)) >= 2
       => LET paths == MapSeq(LAMBDA e : e.path, FragmentsWithPath(elemID))
          IN /\ PathHint(elemID, paths) \in Range(HintsOfCall(lastCall))
             /\ elemID \in DOMAIN pathIndex
             /\ pathIndex[elemID] = paths

\* two fragments of shapes that differ were indexed: no finer hint than the
\* hint of the element, which lists the paths in the order of the input
C19_Witness ==
  /\ IsCompleteUpdate(lastCall)
  /\ unmerged = <<InstNestedY, InstA>>
  /\ pathIndex = [key \in {InstID} |-> <<F2, F1>>]

\* what a call returns when it runs alone
resultAlone(task, index) ==
  IF task.op = "getFromPathIndex" THEN getFromPathIndex(task.elemID, index)
  ELSE splitElementByPath(task.element[1], index)

\* C20: while the index is not updated, whatever the order in which the
\* gets of the lookups and splits in flight return (the gets of the filters
\* of a split among them), a step of a call leaves the index as it is and a
\* call that returns returns what it returns when it runs alone
C20_ConcurrentReadsSafe ==
  [][\A r \in Readers :
       tasks'[r] # tasks[r]
       => /\ pathIndex' = pathIndex
          /\ tasks'[r].status = "returned"
             => tasks'[r].result = resultAlone(tasks'[r], pathIndex)]_vars

\* a split that returned two copies and a lookup that went up to an
\* ancestor have returned, each in flight while the other was
C20_Witness ==
  \E r, o \in Readers :
    /\ tasks[r].op = "splitElementByPath"
    /\ tasks[r].status = "returned"
    /\ tasks[r].concurrent
    /\ Len(tasks[r].result) = 2
    /\ tasks[o].op = "getFromPathIndex"
    /\ tasks[o].status = "returned"
    /\ tasks[o].concurrent
    /\ tasks[o].elemID = createNestedID(InstID, <<"c">>)
    /\ tasks[o].result = <<F1>>

\* the update in flight is a full rebuild whose clear has returned and
\* whose setAll has not
Cleared ==
  /\ lastCall.op = "updatePathIndex"
  /\ lastCall.status = "awaiting"
  /\ lastCall.calls = <<"clear">>

\* the index once the update of the last call is done, from the index the
\* workspace had before it
IndexAfterCall(elements, call) ==
  updatePathIndex(IndexOf(elements), call.changedUnmergedElements,
                  call.unmergedElementIDs, 0).index

IndexAfter == IndexAfterCall(unmerged, lastCall)

\* C21: a lookup whose get returns between the clear and the setAll of a
\* full rebuild misses, and a lookup that returns then returns the empty
\* list, whatever the index held before the update and holds after it; a
\* lookup during which no store call of an update returned returns what it
\* returns alone on the index as it is; whatever the lookups in flight, the
\* update leaves the index it leaves when it runs alone
C21_RacingReadUnsafe ==
  [][/\ (tasks'[Reader] # tasks[Reader] /\ tasks'[Reader].status = "returned")
        => /\ Cleared => tasks'[Reader].result = <<>>
           /\ ~tasks'[Reader].concurrent
              => tasks'[Reader].result = resultAlone(tasks'[Reader], pathIndex)
     /\ (lastCall'.op = "updatePathIndex" /\ lastCall'.status = "done")
        => pathIndex' = IndexAfterCall(unmerged', lastCall')]_vars

\* the lookup of the id of an element returned the empty list during a full
\* rebuild, and it returns a path on the index as it was before the
\* rebuild and on the index as it is after it
C21_Witness ==
  /\ Cleared
  /\ tasks[Reader].status = "returned"
  /\ tasks[Reader].elemID = InstID
  /\ tasks[Reader].concurrent
  /\ tasks[Reader].result = <<>>
  /\ getFromPathIndex(InstID, IndexOf(unmerged)) # <<>>
  /\ getFromPathIndex(InstID, IndexAfter) # <<>>

\* the pairs of the entries of a list whose key starts with a name, in the
\* order of the list
PairsOfAccount(entries, name) ==
  MapSeq(LAMBDA e : <<e.key, e.value>>, SelectSeq(entries, LAMBDA e : e.key[1] = name))

\* C22: serializePathIndexByAccount returns one stream per first name part
\* of the keys of the entries, under that name; the stream of a name lists
\* the pairs (key, paths) of the entries whose key starts with the name, in
\* the order of the input, so that every entry is in exactly one stream;
\* loadPathIndex returns, for its pairs (key, paths), the entries with the
\* same keys and the same paths in the same order
C22_SerializationGrouping ==
  /\ lastCall.op = "serializePathIndexByAccount"
     => LET entries == lastCall.entries
            streams == lastCall.streams
        IN /\ \A g, h \in 1..Len(streams) : g # h => streams[g].name # streams[h].name
           /\ {streams[g].name : g \in 1..Len(streams)}
              = {entries[p].key[1] : p \in 1..Len(entries)}
           /\ \A g \in 1..Len(streams) :
                streams[g].value.stream = PairsOfAccount(entries, streams[g].name)
           /\ \A p \in 1..Len(entries) :
                Cardinality({g \in 1..Len(streams) :
                               \E n \in 1..Len(streams[g].value.stream) :
                                 streams[g].value.stream[n]
                                 = <<entries[p].key, entries[p].value>>}) = 1
  /\ lastCall.op = "loadPathIndex"
     => /\ Len(lastCall.entries) = Len(lastCall.parsedEntries)
        /\ \A p \in 1..Len(lastCall.entries) :
             /\ lastCall.entries[p].key = lastCall.parsedEntries[p][1]
             /\ lastCall.entries[p].value = lastCall.parsedEntries[p][2]

\* entries of two accounts were serialized, the entries of one account
\* around the entry of the other
C22_Witness ==
  /\ lastCall.op = "serializePathIndexByAccount"
  /\ lastCall.entries = <<RemoteMapEntry(InstID, <<F2, F1>>), RemoteMapEntry(SfID, <<F1>>),
                          RemoteMapEntry(ObjID, <<F1>>)>>
  /\ lastCall.streams
     = <<[name |-> "salto",
          value |-> [stream |-> <<<<InstID, <<F2, F1>>>>, <<ObjID, <<F1>>>>>>]],
         [name |-> "sf", value |-> [stream |-> <<<<SfID, <<F1>>>>>>]]>>

\* the lookup of a call of getFromPathIndex
LookupOf(task) == task.lookups[<<0, task.elemID>>]

IsPrefix(key, elemID) == Len(key) <= Len(elemID) /\ SubSeq(elemID, 1, Len(key)) = key

Present(key, index) == key \in DOMAIN index /\ index[key] # <<>>

\* the most gets a lookup of an id may do
MostGets(elemID) == Len(elemID) - Len(createTopLevelParentID(elemID)) + 1

\* a get of the lookup returns in a step
IsLookupGet(before, after) ==
  /\ before.status = "awaiting"
  /\ LookupOf(after) # LookupOf(before)

\* C23: a lookup starts with the get of the full id; the key of every get
\* is the id without its last names and is not shorter than the key of the
\* top level element, so the get is at most the get number MostGets; a get
\* that finds paths ends the lookup with paths, a get that finds none is
\* followed by the get of the key without its last name, unless the key is
\* the top level key, and then the lookup returns the empty list; on every
\* store a lookup does at most MostGets gets and returns the empty list
\* when none of its keys has paths; and every lookup that is started
\* returns, whatever the store calls of an update in the meantime
C23_LookupLoopBound ==
  /\ [][LET before == tasks[Reader]
            after == tasks'[Reader]
        IN /\ (after.status = "awaiting" /\ after.lookups # before.lookups
               /\ before.status # "awaiting")
              => LookupOf(after).idParts = after.elemID
           /\ IsLookupGet(before, after)
              => LET key == LookupOf(before).idParts
                     topLevelKey == createTopLevelParentID(before.elemID)
                 IN /\ IsPrefix(key, before.elemID)
                    /\ Len(key) >= Len(topLevelKey)
                    /\ Len(before.elemID) - Len(key) + 1 <= MostGets(before.elemID)
                    /\ Present(key, pathIndex)
                       => after.status = "returned" /\ after.result # <<>>
                    /\ (~Present(key, pathIndex) /\ key # topLevelKey)
                       => /\ after.status = "awaiting"
                          /\ LookupOf(after).idParts = SubSeq(key, 1, Len(key) - 1)
                    /\ (~Present(key, pathIndex) /\ key = topLevelKey)
                       => after.status = "returned" /\ after.result = <<>>]_vars
  /\ [](\A elemID \in LookupIDs :
          LET found == getFromPathIndexCall(elemID, pathIndex, 0)
          IN /\ found.status = "done"
             /\ Len(found.gets) <= MostGets(elemID)
             /\ found.gets[1] = elemID
             /\ \A n \in 1..Len(found.gets) :
                  /\ IsPrefix(found.gets[n], elemID)
                  /\ Len(found.gets[n]) = Len(elemID) - n + 1
                  /\ Len(found.gets[n]) >= Len(createTopLevelParentID(elemID))
                  /\ n < Len(found.gets) => ~Present(found.gets[n], pathIndex)
             /\ (\A n \in Len(createTopLevelParentID(elemID))..Len(elemID) :
                   ~Present(SubSeq(elemID, 1, n), pathIndex))
                => found.paths = <<>> /\ Len(found.gets) = MostGets(elemID))
  /\ (tasks[Reader].status = "awaiting" ~> tasks[Reader].status = "returned")

\* the lookup of an id three names below an instance did four gets, down
\* to the key of the instance, found no paths and returned the empty list
C23_Witness ==
  /\ tasks[Reader].status = "returned"
  /\ tasks[Reader].elemID = createNestedID(InstID, <<"a", "x", "c">>)
  /\ LookupOf(tasks[Reader]).idParts = ObjID
  /\ tasks[Reader].result = <<>>
  /\ Len(getFromPathIndexCall(tasks[Reader].elemID, pathIndex, 0).gets) = 4

\* C24: after every updatePathIndex called with the fragments the changed
\* elements have now and with the ids of all the elements there are now,
\* on an index that was rebuilt from the elements before the changes, the
\* index is the index a full rebuild from the elements there are now gives
C24_IncrementalAgreesWithRebuild ==
  (lastCall.op = "updatePathIndex" /\ lastCall.status = "done")
  => pathIndex = IndexOf(unmerged)

\* the leaf values of an element: those of its annotations, of the
\* annotations of its fields and of its value
LeafValues(element) ==
  {item \in ElementContent(element) :
     item.part \in {"annotation", "value", "fieldAnnotation"}}

\* the copies a split returned that hold an item
CopiesWith(call, item) ==
  {i \in 1..Len(call.elements) : item \in ElementContent(call.elements[i])}

\* C25: the split of an element merged from fragments at distinct paths,
\* after the fragments were indexed with updatePathIndex, returns copies of
\* which at most one holds any given leaf value of the element
C25_NoDuplicateLeaf ==
  (IsSplitOfIndexed(lastCall) /\ lastCall.status = "done")
  => \A item \in LeafValues(lastCall.element[1]) :
       Cardinality(CopiesWith(lastCall, item)) <= 1

\* an element of three leaf values was split in two copies; one leaf value
\* is in the first copy only and another in the second copy only
C25_Witness ==
  /\ IsSplitOfIndexed(lastCall)
  /\ lastCall.status = "done"
  /\ Len(lastCall.elements) = 2
  /\ Cardinality(LeafValues(lastCall.element[1])) = 3
  /\ \E item \in LeafValues(lastCall.element[1]) : CopiesWith(lastCall, item) = {1}
  /\ \E item \in LeafValues(lastCall.element[1]) : CopiesWith(lastCall, item) = {2}

UniqueKeys(hints) == \A i, j \in 1..Len(hints) : i # j => hints[i].key # hints[j].key

Reverse(seq) == [i \in 1..Len(seq) |-> seq[Len(seq) + 1 - i]]

\* C26: the hints of an update, computed by getElementsPathHints or by
\* getTopLevelPathHints from the unmerged elements, have no two hints with
\* the same key, and the index after the setAll is the index the setAll of
\* the hints in the opposite order gives
C26_UniqueHintKeys ==
  (IsCompleteUpdate(lastCall) /\ lastCall.changedUnmergedElements = unmerged)
  => /\ UniqueKeys(HintsOfCall(lastCall))
     /\ pathIndex = indexSetAll(EmptyIndex, Reverse(HintsOfCall(lastCall)))

\* the id of a field that two or more of the unmerged fragments of a type
\* define
IsSharedFieldID(key) ==
  \E i \in 1..Len(unmerged) :
    /\ isObjectType(unmerged[i])
    /\ \E name \in DOMAIN unmerged[i].fields :
         /\ key = createNestedID(unmerged[i].elemID, <<"field", name>>)
         /\ Len(FragmentsWithField(unmerged[i].elemID, name)) >= 2

\* C27: in the hints getElementsPathHints computes from the unmerged
\* elements, a hint that lists more than one path is the hint at the id of
\* an element, listing the paths of its fragments, or the hint at the id of
\* a field that two or more fragments define; every other hint, those of
\* the annotation values, of the instance values, of the field annotation
\* values and of the annotation types among them, lists exactly one path
C27_OnlyCatchAllsListSeveralPaths ==
  (IsCompleteUpdate(lastCall) /\ lastCall.op = "updatePathIndex"
   /\ lastCall.changedUnmergedElements = unmerged)
  => \A hint \in Range(HintsOfCall(lastCall)) :
       /\ Len(hint.value) >= 1
       /\ Len(hint.value) > 1
          => \/ /\ hint.key \in ElemIDsOf(unmerged)
                /\ Len(hint.value) = Len(FragmentsWithPath(hint.key))
             \/ IsSharedFieldID(hint.key)
       /\ (hint.key \notin ElemIDsOf(unmerged) /\ ~IsSharedFieldID(hint.key))
          => Len(hint.value) = 1

\* three fragments of a type were indexed: the hint of the type and the
\* hint of the field that two fragments define list several paths, and the
\* seven other hints list one path
C27_Witness ==
  /\ IsCompleteUpdate(lastCall)
  /\ lastCall.op = "updatePathIndex"
  /\ unmerged = <<ObjFields, ObjMixed, ObjAnno>>
  /\ lastCall.changedUnmergedElements = unmerged
  /\ pathIndex[ObjID] = <<F2, F3, F1>>
  /\ pathIndex[createNestedID(ObjID, <<"field", "f">>)] = <<F2, F3>>
  /\ Cardinality({key \in DOMAIN pathIndex : Len(pathIndex[key]) = 1}) = 7
  /\ Cardinality(DOMAIN pathIndex) = 9

====
